---- MODULE Spec2Model ----
(***************************************************************************)
(* A model of the steganographic codec of SOC2-web                         *)
(* (src/src/services/ClientImageProcessor.js): the header format, the two  *)
(* pixel codecs (direct bytes and variable bit depth LSB packing), the     *)
(* hide pipelines and the extract pipeline.                                *)
(*                                                                         *)
(* Bytes are integers 0..255, byte arrays are sequences (index 1 is JS     *)
(* index 0).  An RGBA pixel buffer is a sequence of 4*width*height bytes.  *)
(***************************************************************************)
EXTENDS Integers, Sequences, FiniteSets, TLC

VARIABLES
    pc,       \* position of the scenario: "idle", "hidden", "failed", "extracted"
    req,      \* the arguments of the hide call that ran
    carrier,  \* the carrier image handed to the hide call (never written by it)
    image,    \* the image the hide call produced (what toBlob encodes)
    hideOut,  \* outcome of the hide call
    tamper,   \* what the environment changed in the image after the hide
    ext,      \* outcome of extractFileAsync, with the steps it went through
    codec,    \* scenario of the bare pixel codec (write, then read a slice), or
              \* the position of an extraction in its loops
    ui        \* state of the App component on the screen that hides in an image

vars == <<pc, req, carrier, image, hideOut, tamper, ext, codec, ui>>

-----------------------------------------------------------------------------
(* Bounds of the model *)

MaxPayloadLen == 2    \* payload files hold at most this many bytes
MaxCodecBytes == 3    \* byte sequences handed to the bare codec
MaxCodecPixels == 9   \* pixels of the buffers handed to the bare codec
MaxDirectTotal == 120 \* total lengths handed to the sizing of the generated image
MaxUiSelections == 2  \* files the user drops on the screen in one scenario

-----------------------------------------------------------------------------
(* Program constants *)

ENCODING_TYPE_GENERATED == 0
ENCODING_TYPE_LSB == 1
BYTES_PER_PIXEL_GENERATED == 3
SHA256_SIZE == 32
MaxFileNameBytes == 255
IV_SIZE == 16          \* iv of AES-CBC, also its block size
SIGNATURE == <<83, 67>>    \* "SC"

-----------------------------------------------------------------------------
(* Integer helpers: the bit operations of JavaScript on small naturals *)

Pow2(k) == 2 ^ k

Min(a, b) == IF a < b THEN a ELSE b

CeilDiv(a, b) == (a + b - 1) \div b

\* bit k of x, k = 0 the least significant
BitAt(x, k) == (x \div Pow2(k)) % 2

RECURSIVE XorBits(_, _, _)
XorBits(a, b, k) ==
    IF k = 0 THEN 0
    ELSE 2 * XorBits(a \div 2, b \div 2, k - 1) + (((a % 2) + (b % 2)) % 2)

\* a ^ b on bytes
Xor(a, b) == XorBits(a, b, 8)

\* sequence helpers
Slice(s, from, n) == [i \in 1..n |-> s[from + i]]   \* JS s.slice(from, from+n)

\* the sum of the elements (by halves, so that long sequences need little
\* recursion)
RECURSIVE SumSeq(_)
SumSeq(s) ==
    IF s = <<>> THEN 0
    ELSE IF Len(s) = 1 THEN s[1]
    ELSE LET half == Len(s) \div 2
         IN  SumSeq(SubSeq(s, 1, half)) + SumSeq(SubSeq(s, half + 1, Len(s)))

-----------------------------------------------------------------------------
(* Pixel codecs *)

\* pixelData[i] for a JS index i; reading past the end gives undefined,
\* which the bit operations of the readers turn into 0
PixelAt(pixelData, i) == IF i < Len(pixelData) THEN pixelData[i + 1] ELSE 0

\* a variant of _writeBytesDirectly that fills the channels of a pixel in the
\* order blue, green, red
WriteBytesDirectlyBgr(imageData, bytes) ==
    [x \in 1..Len(imageData) |->
        LET i == x - 1
            byteIndex == (i \div 4) * 3 + (2 - (i % 4))
        IN  IF i % 4 # 3 /\ byteIndex < Len(bytes)
            THEN bytes[byteIndex + 1]
            ELSE imageData[x]]

\* a variant of _writeBytesDirectly that fills the elements green, blue and
\* alpha of a pixel
WriteBytesDirectlyGba(imageData, bytes) ==
    [x \in 1..Len(imageData) |->
        LET i == x - 1
            byteIndex == (i \div 4) * 3 + ((i % 4) - 1)
        IN  IF i % 4 # 0 /\ byteIndex < Len(bytes)
            THEN bytes[byteIndex + 1]
            ELSE imageData[x]]

\* _writeBytesDirectly: byte k goes to pixel k/3, channel k%3; the loop stops
\* at the end of the buffer or of the bytes, whichever comes first
_writeBytesDirectly(imageData, bytes) ==
    [x \in 1..Len(imageData) |->
        LET i == x - 1
            byteIndex == (i \div 4) * 3 + (i % 4)
        IN  IF i % 4 # 3 /\ byteIndex < Len(bytes)
            THEN bytes[byteIndex + 1]
            ELSE imageData[x]]

\* _readBytesDirectly
_readBytesDirectly(pixelData, startOffset, length) ==
    [k \in 1..length |->
        LET dataBytePosition == startOffset + (k - 1)
            pixel == dataBytePosition \div 3
            channel == dataBytePosition % 3
        IN  PixelAt(pixelData, pixel * 4 + channel)]

\* a variant of StreamBit that takes the bits of a byte least significant first
StreamBitLsbFirst(bytes, b) == BitAt(bytes[(b \div 8) + 1], b % 8)

\* bit number b (0 = first) of the bit stream of bytes, most significant first:
\* (dataByte >> (7 - dataByteBitIndex)) & 1
StreamBit(bytes, b) == BitAt(bytes[(b \div 8) + 1], 7 - (b % 8))

\* bitsToStore of the inner loop: the stream bits [from, to) as a number
RECURSIVE BitsToStore(_, _, _)
BitsToStore(bytes, from, to) ==
    IF from >= to THEN 0
    ELSE 2 * BitsToStore(bytes, from, to - 1) + StreamBit(bytes, to - 1)

\* a variant of _writeDataWithBitDepth that ORs the bits in without clearing
\* the low bits of the element first
WriteDataWithoutClearing(imageData, bytes, bitDepth) ==
    [x \in 1..Len(imageData) |->
        LET i == x - 1
            n == (i \div 4) * 3 + (i % 4)
            dataBitIndex == n * bitDepth
            total == Len(bytes) * 8
        IN  IF i % 4 = 3 \/ dataBitIndex >= total
            THEN imageData[x]
            ELSE LET bitsToStore ==
                        BitsToStore(bytes, dataBitIndex, Min(dataBitIndex + bitDepth, total))
                     low == imageData[x] % Pow2(bitDepth)
                     orLow == [k \in 0..(bitDepth - 1) |->
                                 IF BitAt(low, k) = 1 \/ BitAt(bitsToStore, k) = 1
                                 THEN Pow2(k) ELSE 0]
                 IN  (imageData[x] - low)
                        + SumSeq([k \in 1..bitDepth |-> orLow[k - 1]])]

\* a variant of _writeDataWithBitDepth that clears the whole element before
\* the bits are ORed in
WriteDataClearingElement(imageData, bytes, bitDepth) ==
    [x \in 1..Len(imageData) |->
        LET i == x - 1
            n == (i \div 4) * 3 + (i % 4)
            dataBitIndex == n * bitDepth
            total == Len(bytes) * 8
        IN  IF i % 4 = 3 \/ dataBitIndex >= total
            THEN imageData[x]
            ELSE BitsToStore(bytes, dataBitIndex, Min(dataBitIndex + bitDepth, total))]

\* _writeDataWithBitDepth: the n-th non-alpha element visited finds
\* dataBitIndex = n*bitDepth (or the loop has ended), takes up to bitDepth
\* bits, clears its low bitDepth bits (& (0xFF << bitDepth)) and ORs the bits in
_writeDataWithBitDepth(imageData, bytes, bitDepth) ==
    [x \in 1..Len(imageData) |->
        LET i == x - 1
            n == (i \div 4) * 3 + (i % 4)
            dataBitIndex == n * bitDepth
            total == Len(bytes) * 8
        IN  IF i % 4 = 3 \/ dataBitIndex >= total
            THEN imageData[x]
            ELSE LET bitsToStore ==
                        BitsToStore(bytes, dataBitIndex, Min(dataBitIndex + bitDepth, total))
                     clearedChannelValue == imageData[x] - (imageData[x] % Pow2(bitDepth))
                 IN  clearedChannelValue + bitsToStore]

\* the inner loop of _readDataWithBitDepth for one output byte:
\* for (j = 0; j < 8; j += bitDepth), stopping when bitIndex passes length*8
RECURSIVE ReadChunks(_, _, _, _, _)
ReadChunks(pixelData, bitIndex, j, bitDepth, currentByte) ==
    IF j >= 8 \/ bitIndex >= Len(pixelData) * 8
    THEN currentByte
    ELSE LET pixelIndex == bitIndex \div (3 * bitDepth)
             channelOffset == (bitIndex % (3 * bitDepth)) \div bitDepth
             channelIndex == pixelIndex * 4 + channelOffset
             bits == PixelAt(pixelData, channelIndex) % Pow2(bitDepth)
         IN  ReadChunks(pixelData, bitIndex + bitDepth, j + bitDepth, bitDepth,
                        currentByte * Pow2(bitDepth) + bits)

\* _readDataWithBitDepth: every output byte takes ceil(8/bitDepth) chunks, so
\* byte i starts at bitIndex startOffset*8 + i*ceil(8/bitDepth)*bitDepth; the
\* result is stored in a Uint8Array, which keeps the low 8 bits
_readDataWithBitDepth(pixelData, startOffset, length, bitDepth) ==
    [k \in 1..length |->
        ReadChunks(pixelData,
                   startOffset * 8 + (k - 1) * CeilDiv(8, bitDepth) * bitDepth,
                   0, bitDepth, 0) % 256]

-----------------------------------------------------------------------------
(* Text, digest, compression and encryption: the library calls of the code *)

\* new TextEncoder().encode(fileName) for code points below 0x800
\* (the string is split in halves so that long names need little recursion)
Utf8Char(cp) ==
    IF cp < 128 THEN <<cp>> ELSE <<192 + (cp \div 64), 128 + (cp % 64)>>

RECURSIVE Utf8Encode(_)
Utf8Encode(str) ==
    IF str = <<>> THEN <<>>
    ELSE IF Len(str) = 1 THEN Utf8Char(str[1])
    ELSE LET half == Len(str) \div 2
         IN  Utf8Encode(SubSeq(str, 1, half)) \o Utf8Encode(SubSeq(str, half + 1, Len(str)))

\* new TextDecoder().decode(bytes): one and two byte forms, U+FFFD for the rest.
\* A byte is the second byte of a two byte form when it is a continuation
\* byte that follows a lead byte (a lead byte is never a continuation byte)
Utf8Decode(bytes) ==
    LET second(i) == /\ i > 1
                     /\ bytes[i] \in 128..191
                     /\ bytes[i - 1] \in 194..223
        starts == SelectSeq([i \in 1..Len(bytes) |-> i], LAMBDA i : ~second(i))
        codePoint(i) ==
            IF bytes[i] < 128 THEN bytes[i]
            ELSE IF bytes[i] \in 194..223 /\ i < Len(bytes) /\ bytes[i + 1] \in 128..191
                 THEN (bytes[i] - 192) * 64 + (bytes[i + 1] - 128)
                 ELSE 65533
    IN  [k \in 1..Len(starts) |-> codePoint(starts[k])]

\* a variant of _computeSHA256 that digests the length of the data alone
DigestOfLength(data) == [i \in 1..SHA256_SIZE |-> (31 * i + Len(data)) % 256]

\* _computeSHA256: a 32-byte digest.  SHA-256 is idealised as free of
\* collisions: this digest is injective on inputs shorter than 32 bytes
_computeSHA256(data) ==
    [i \in 1..SHA256_SIZE |->
        ((IF i <= Len(data) THEN data[i] ELSE 0) + 31 * i + Len(data)) % 256]

\* a variant of _arraysEqual that compares the lengths alone
ArraysEqualLength(a, b) == Len(a) = Len(b)

\* _arraysEqual
_arraysEqual(a, b) ==
    IF Len(a) # Len(b) THEN FALSE ELSE \A i \in 1..Len(a) : a[i] = b[i]

\* pako.deflate: the zlib container reduced to a method byte, the length of
\* the data, the data and a checksum over it (adler32 in zlib)
DeflateMethod == 120
DeflateOverhead == 3
DeflateCheck(data) == (1 + SumSeq(data)) % 256

Deflate(data) == <<DeflateMethod, Len(data)>> \o data \o <<DeflateCheck(data)>>

\* pako.inflate: throws on a bad method byte, length or checksum
InflateOk(bytes) ==
    /\ Len(bytes) >= DeflateOverhead
    /\ bytes[1] = DeflateMethod
    /\ bytes[2] = Len(bytes) - DeflateOverhead
    /\ bytes[Len(bytes)] = DeflateCheck(Slice(bytes, 2, Len(bytes) - DeflateOverhead))

Inflate(bytes) == Slice(bytes, 2, Len(bytes) - DeflateOverhead)

\* passwords: null, or a string given by its character codes
NullPassword == [isNull |-> TRUE, chars |-> <<>>]
Password(chars) == [isNull |-> FALSE, chars |-> chars]
Truthy(password) == ~password.isNull /\ password.chars # <<>>   \* if (password)

\* a variant of _deriveKey that ignores the password
DeriveFixedKey(password) == 0

\* _deriveKey: PBKDF2 with the fixed salt is a function of the password alone;
\* the 256-bit key is reduced to one byte
_deriveKey(password) == (SumSeq(Utf8Encode(password.chars)) + Len(password.chars)) % 256

\* the block cipher under a key (AES in the code): a keyed permutation of
\* 16-byte blocks, here the xor of every byte with the key byte
BlockEncrypt(key, block) == [i \in 1..IV_SIZE |-> Xor(block[i], key)]
BlockDecrypt(key, block) == [i \in 1..IV_SIZE |-> Xor(block[i], key)]

XorBlock(a, b) == [i \in 1..IV_SIZE |-> Xor(a[i], b[i])]

\* PKCS#7 padding of AES-CBC: 1..16 bytes, each the number of bytes added
Pkcs7Pad(data) ==
    LET padLen == IV_SIZE - (Len(data) % IV_SIZE)
    IN  data \o [i \in 1..padLen |-> padLen]

Pkcs7Ok(padded) ==
    /\ Len(padded) >= IV_SIZE
    /\ LET padLen == padded[Len(padded)]
       IN  /\ padLen \in 1..IV_SIZE
           /\ \A i \in (Len(padded) - padLen + 1)..Len(padded) : padded[i] = padLen

Pkcs7Unpad(padded) == SubSeq(padded, 1, Len(padded) - padded[Len(padded)])

\* CBC chaining over the blocks of padded, prev the previous cipher block
RECURSIVE CbcEncrypt(_, _, _)
CbcEncrypt(key, prev, padded) ==
    IF padded = <<>> THEN <<>>
    ELSE LET c == BlockEncrypt(key, XorBlock(SubSeq(padded, 1, IV_SIZE), prev))
         IN  c \o CbcEncrypt(key, c, SubSeq(padded, IV_SIZE + 1, Len(padded)))

RECURSIVE CbcDecrypt(_, _, _)
CbcDecrypt(key, prev, cipher) ==
    IF cipher = <<>> THEN <<>>
    ELSE LET c == SubSeq(cipher, 1, IV_SIZE)
         IN  XorBlock(BlockDecrypt(key, c), prev)
                 \o CbcDecrypt(key, c, SubSeq(cipher, IV_SIZE + 1, Len(cipher)))

\* _encryptData: iv || AES-CBC(key, iv, data); iv is what getRandomValues gave
_encryptData(data, password, iv) ==
    iv \o CbcEncrypt(_deriveKey(password), iv, Pkcs7Pad(data))

\* _decryptData: crypto.subtle.decrypt rejects a ciphertext that is not a
\* positive number of whole blocks or whose padding is wrong
DecryptOk(data, password) ==
    /\ Len(data) >= 2 * IV_SIZE
    /\ (Len(data) - IV_SIZE) % IV_SIZE = 0
    /\ Pkcs7Ok(CbcDecrypt(_deriveKey(password), SubSeq(data, 1, IV_SIZE),
                          SubSeq(data, IV_SIZE + 1, Len(data))))

_decryptData(data, password) ==
    Pkcs7Unpad(CbcDecrypt(_deriveKey(password), SubSeq(data, 1, IV_SIZE),
                          SubSeq(data, IV_SIZE + 1, Len(data))))

-----------------------------------------------------------------------------
(* The header *)

\* a variant of LittleEndian that puts the most significant byte first
RECURSIVE BigEndian(_, _)
BigEndian(value, n) ==
    IF n = 0 THEN <<>> ELSE BigEndian(value \div 256, n - 1) \o <<value % 256>>

\* sizeView.setBigUint64(0, BigInt(fileSize), true): 8 bytes, little endian
RECURSIVE LittleEndian(_, _)
LittleEndian(value, n) ==
    IF n = 0 THEN <<>> ELSE <<value % 256>> \o LittleEndian(value \div 256, n - 1)

SizeBytes(fileSize) == LittleEndian(fileSize, 8)

\* a variant of SizeValue that takes the two low bytes alone
SizeValueLowWord(bytes) == bytes[1] + 256 * bytes[2]

\* Number(getBigUint64(0, true)) of 8 bytes; the model's integers end at
\* 2^31 - 1 and a larger size is read as that value
SizeValue(bytes) ==
    IF bytes[4] >= 128 \/ \E i \in 5..8 : bytes[i] # 0
    THEN 2147483647
    ELSE bytes[1] + 256 * bytes[2] + 65536 * bytes[3] + 16777216 * bytes[4]

FlagByte(b) == IF b THEN 1 ELSE 0

\* a variant of _createHeader without the check of the file name length; the
\* length byte keeps the low 8 bits as an element of a Uint8Array does
CreateHeaderUnchecked(fileSize, fileName, sha256Hash, isEncrypted, encodingType, isCompressed, bitDepth) ==
    LET fileNameBytes == Utf8Encode(fileName)
    IN  [ok |-> TRUE, error |-> "none",
         bytes |-> SIGNATURE
                   \o <<encodingType % 256, FlagByte(isCompressed), bitDepth % 256>>
                   \o LittleEndian(fileSize, 8)
                   \o <<Len(fileNameBytes) % 256>>
                   \o fileNameBytes
                   \o <<FlagByte(isEncrypted)>>
                   \o sha256Hash]

\* _createHeader: throws 'Filename too long', else the header bytes
_createHeader(fileSize, fileName, sha256Hash, isEncrypted, encodingType, isCompressed, bitDepth) ==
    LET fileNameBytes == Utf8Encode(fileName)
    IN  IF Len(fileNameBytes) > MaxFileNameBytes
        THEN [ok |-> FALSE, error |-> "FilenameTooLong", bytes |-> <<>>]
        ELSE [ok |-> TRUE, error |-> "none",
              bytes |-> SIGNATURE
                        \o <<encodingType % 256, FlagByte(isCompressed), bitDepth % 256>>
                        \o SizeBytes(fileSize)
                        \o <<Len(fileNameBytes)>>
                        \o fileNameBytes
                        \o <<FlagByte(isEncrypted)>>
                        \o sha256Hash]

NoHeader(probe) ==
    [ok |-> FALSE, error |-> "InvalidSignature", probe |-> probe,
     encodingType |-> 0, isCompressed |-> FALSE, bitDepth |-> 0, fileSize |-> 0,
     fileName |-> <<>>, isEncrypted |-> FALSE, sha256Hash |-> <<>>,
     totalHeaderSize |-> 0]

\* a variant of _readHeader that has no direct probe to fall back to
ReadHeaderLsbOnly(pixelData) ==
    LET lsbBytes == _readDataWithBitDepth(pixelData, 0, 5, 1)
        lsbMatch == SubSeq(lsbBytes, 1, 2) = SIGNATURE
        directBytes == _readBytesDirectly(pixelData, 0, 5)
        directMatch == FALSE
        sigBytes == IF lsbMatch THEN lsbBytes ELSE directBytes
        probe == IF lsbMatch THEN "lsb" ELSE "direct"
        encodingType == sigBytes[3]
        isCompressed == sigBytes[4] = 1
        bitDepth == sigBytes[5]
        readFunc(offset, len) ==
            IF encodingType = ENCODING_TYPE_LSB
            THEN _readDataWithBitDepth(pixelData, offset, len, bitDepth)
            ELSE _readBytesDirectly(pixelData, offset, len)
        fileSize == SizeValue(readFunc(5, 8))
        fileNameLength == readFunc(13, 1)[1]
        fileNameBytes == readFunc(14, fileNameLength)
        isEncrypted == readFunc(14 + fileNameLength, 1)[1] = 1
        sha256Hash == readFunc(15 + fileNameLength, SHA256_SIZE)
    IN  IF ~lsbMatch /\ ~directMatch
        THEN NoHeader("none")
        ELSE [ok |-> TRUE, error |-> "none", probe |-> probe,
              encodingType |-> encodingType, isCompressed |-> isCompressed,
              bitDepth |-> bitDepth, fileSize |-> fileSize,
              fileName |-> Utf8Decode(fileNameBytes), isEncrypted |-> isEncrypted,
              sha256Hash |-> sha256Hash,
              totalHeaderSize |-> 15 + fileNameLength + SHA256_SIZE]

\* _readHeader: probe the first 5 bytes as LSB at bit depth 1, fall back to a
\* direct read, then read the fields with the reader the header declares
_readHeader(pixelData) ==
    LET lsbBytes == _readDataWithBitDepth(pixelData, 0, 5, 1)
        lsbMatch == SubSeq(lsbBytes, 1, 2) = SIGNATURE
        directBytes == _readBytesDirectly(pixelData, 0, 5)
        directMatch == SubSeq(directBytes, 1, 2) = SIGNATURE
        sigBytes == IF lsbMatch THEN lsbBytes ELSE directBytes
        probe == IF lsbMatch THEN "lsb" ELSE "direct"
        encodingType == sigBytes[3]
        isCompressed == sigBytes[4] = 1
        bitDepth == sigBytes[5]
        readFunc(offset, len) ==
            IF encodingType = ENCODING_TYPE_LSB
            THEN _readDataWithBitDepth(pixelData, offset, len, bitDepth)
            ELSE _readBytesDirectly(pixelData, offset, len)
        fileSize == SizeValue(readFunc(5, 8))
        fileNameLength == readFunc(13, 1)[1]
        fileNameBytes == readFunc(14, fileNameLength)
        isEncrypted == readFunc(14 + fileNameLength, 1)[1] = 1
        sha256Hash == readFunc(15 + fileNameLength, SHA256_SIZE)
    IN  IF ~lsbMatch /\ ~directMatch
        THEN NoHeader("none")
        ELSE [ok |-> TRUE, error |-> "none", probe |-> probe,
              encodingType |-> encodingType, isCompressed |-> isCompressed,
              bitDepth |-> bitDepth, fileSize |-> fileSize,
              fileName |-> Utf8Decode(fileNameBytes), isEncrypted |-> isEncrypted,
              sha256Hash |-> sha256Hash,
              totalHeaderSize |-> 15 + fileNameLength + SHA256_SIZE]

-----------------------------------------------------------------------------
(* The pipelines *)

MAX_FILE_SIZE == 1073741824

NoImage == [width |-> 0, height |-> 0, data |-> <<>>]

HideFailed(error, required, available) ==
    [status |-> "error", error |-> error, required |-> required,
     available |-> available, image |-> NoImage, header |-> <<>>,
     processed |-> <<>>, pixelWrites |-> 0]

HideDone(img, header, processed) ==
    [status |-> "ok", error |-> "none", required |-> Len(header) + Len(processed),
     available |-> 0, image |-> img, header |-> header, processed |-> processed,
     pixelWrites |-> 1]

\* a variant of TooLarge that rejects an exact fit
TooLargeOrEqual(totalLength, carrierCapacity) == totalLength >= carrierCapacity

\* if (totalData.length > carrierCapacity) throw
TooLarge(totalLength, carrierCapacity) == totalLength > carrierCapacity

\* a variant of hideInExistingImageAsync that writes the pixels first and
\* checks the capacity afterwards
HideWriteBeforeCheck(file, carrierImg, password, bitDepth, iv) ==
    LET rawPayloadData == file.data
        compressedPayload == Deflate(rawPayloadData)
        isEncrypted == ~password.isNull
        sha256Hash == _computeSHA256(rawPayloadData)
        processedData == IF isEncrypted
                         THEN _encryptData(compressedPayload, password, iv)
                         ELSE compressedPayload
        header == _createHeader(Len(processedData), file.name, sha256Hash, isEncrypted,
                                ENCODING_TYPE_LSB, TRUE, bitDepth)
        totalData == header.bytes \o processedData
        carrierCapacity == (carrierImg.width * carrierImg.height * 3 * bitDepth) \div 8
        written == [width |-> carrierImg.width, height |-> carrierImg.height,
                    data |-> _writeDataWithBitDepth(carrierImg.data, totalData, bitDepth)]
    IN  IF ~header.ok
        THEN HideFailed(header.error, 0, 0)
        ELSE IF TooLarge(Len(totalData), carrierCapacity)
        THEN [HideFailed("CapacityExceeded", Len(totalData), carrierCapacity)
                 EXCEPT !.image = written, !.pixelWrites = 1]
        ELSE HideDone(written, header.bytes, processedData)

\* a variant of hideInExistingImageAsync that hashes the processed payload
\* instead of the bytes as read
HideHashProcessed(file, carrierImg, password, bitDepth, iv) ==
    LET rawPayloadData == file.data
        compressedPayload == Deflate(rawPayloadData)
        isEncrypted == ~password.isNull
        processedData == IF isEncrypted
                         THEN _encryptData(compressedPayload, password, iv)
                         ELSE compressedPayload
        sha256Hash == _computeSHA256(processedData)
        header == _createHeader(Len(processedData), file.name, sha256Hash, isEncrypted,
                                ENCODING_TYPE_LSB, TRUE, bitDepth)
        totalData == header.bytes \o processedData
        carrierCapacity == (carrierImg.width * carrierImg.height * 3 * bitDepth) \div 8
    IN  IF ~header.ok
        THEN HideFailed(header.error, 0, 0)
        ELSE IF TooLarge(Len(totalData), carrierCapacity)
        THEN HideFailed("CapacityExceeded", Len(totalData), carrierCapacity)
        ELSE HideDone([width |-> carrierImg.width, height |-> carrierImg.height,
                       data |-> _writeDataWithBitDepth(carrierImg.data, totalData, bitDepth)],
                      header.bytes, processedData)

\* hideInExistingImageAsync; file = [name, data], carrierImg = [width, height, data]
hideInExistingImageAsync(file, carrierImg, password, bitDepth, iv) ==
    LET rawPayloadData == file.data
        compressedPayload == Deflate(rawPayloadData)
        isEncrypted == ~password.isNull                    \* password != null
        sha256Hash == _computeSHA256(rawPayloadData)
        processedData == IF isEncrypted
                         THEN _encryptData(compressedPayload, password, iv)
                         ELSE compressedPayload
        header == _createHeader(Len(processedData), file.name, sha256Hash, isEncrypted,
                                ENCODING_TYPE_LSB, TRUE, bitDepth)
        totalData == header.bytes \o processedData
        carrierCapacity == (carrierImg.width * carrierImg.height * 3 * bitDepth) \div 8
    IN  IF ~header.ok
        THEN HideFailed(header.error, 0, 0)
        ELSE IF TooLarge(Len(totalData), carrierCapacity)
        THEN HideFailed("CapacityExceeded", Len(totalData), carrierCapacity)
        ELSE HideDone([width |-> carrierImg.width, height |-> carrierImg.height,
                       data |-> _writeDataWithBitDepth(carrierImg.data, totalData, bitDepth)],
                      header.bytes, processedData)

\* a variant of CeilSqrt that rounds down
FloorSqrt(n) == CHOOSE s \in 0..n : s * s <= n /\ (s + 1) * (s + 1) > n

\* Math.ceil(Math.sqrt(n))
CeilSqrt(n) == CHOOSE s \in 0..n : s * s >= n /\ (s = 0 \/ (s - 1) * (s - 1) < n)

\* ctx.fillStyle = 'white'; fillRect over the whole canvas
WhiteCanvas(imageSize) == [x \in 1..(4 * imageSize * imageSize) |-> 255]

\* a variant of createCarrierImageAsync that deflates the payload as the
\* other pipeline does
CreateCarrierCompressed(file, password, iv) ==
    LET fileData == file.data
        sha256Hash == _computeSHA256(fileData)
        compressed == Deflate(fileData)
        processedData == IF Truthy(password)
                         THEN _encryptData(compressed, password, iv)
                         ELSE compressed
        header == _createHeader(Len(processedData), file.name, sha256Hash, Truthy(password),
                                ENCODING_TYPE_GENERATED, TRUE, 0)
        totalData == header.bytes \o processedData
        pixelCount == CeilDiv(Len(totalData), BYTES_PER_PIXEL_GENERATED)
        imageSize == CeilSqrt(pixelCount)
    IN  IF Len(fileData) > MAX_FILE_SIZE
        THEN HideFailed("FileTooLarge", 0, 0)
        ELSE IF ~header.ok
        THEN HideFailed(header.error, 0, 0)
        ELSE HideDone([width |-> imageSize, height |-> imageSize,
                       data |-> _writeBytesDirectly(WhiteCanvas(imageSize), totalData)],
                      header.bytes, processedData)

\* createCarrierImageAsync
createCarrierImageAsync(file, password, iv) ==
    LET fileData == file.data
        sha256Hash == _computeSHA256(fileData)
        processedData == IF Truthy(password)
                         THEN _encryptData(fileData, password, iv)
                         ELSE fileData
        header == _createHeader(Len(processedData), file.name, sha256Hash, Truthy(password),
                                ENCODING_TYPE_GENERATED, FALSE, 0)
        totalData == header.bytes \o processedData
        pixelCount == CeilDiv(Len(totalData), BYTES_PER_PIXEL_GENERATED)
        imageSize == CeilSqrt(pixelCount)
    IN  IF Len(fileData) > MAX_FILE_SIZE
        THEN HideFailed("FileTooLarge", 0, 0)
        ELSE IF ~header.ok
        THEN HideFailed(header.error, 0, 0)
        ELSE HideDone([width |-> imageSize, height |-> imageSize,
                       data |-> _writeBytesDirectly(WhiteCanvas(imageSize), totalData)],
                      header.bytes, processedData)

ExtractResult(status, error, headerInfo, data, steps) ==
    [status |-> status, error |-> error, header |-> headerInfo,
     fileName |-> IF status = "ok" THEN headerInfo.fileName ELSE <<>>,
     data |-> IF status = "ok" THEN data ELSE <<>>,
     decryptCalled |-> "decrypt" \in steps, decryptOk |-> "decrypted" \in steps,
     inflateCalled |-> "inflate" \in steps, inflateOk |-> "inflated" \in steps,
     hashChecked |-> "hash" \in steps,
     hashEqual |-> "hashEqual" \in steps]

\* a variant of PasswordMissing that asks for a password whatever the header says
PasswordMissingAlways(headerInfo, password) == ~Truthy(password)

\* if (headerInfo.isEncrypted) { if (!password) throw
PasswordMissing(headerInfo, password) == headerInfo.isEncrypted /\ ~Truthy(password)

\* extractFileAsync, after the header and the data are read
ExtractFromHeader(headerInfo, fileDataFromImage, password) ==
    LET decryptOk == DecryptOk(fileDataFromImage, password)
        decryptedData == IF headerInfo.isEncrypted
                         THEN _decryptData(fileDataFromImage, password)
                         ELSE fileDataFromImage
        inflateOk == InflateOk(decryptedData)
        finalData == IF headerInfo.isCompressed THEN Inflate(decryptedData)
                     ELSE decryptedData
        hashEqual == _arraysEqual(_computeSHA256(finalData), headerInfo.sha256Hash)
        s1 == IF headerInfo.isEncrypted THEN {"decrypt", "decrypted"} ELSE {}
        s2 == s1 \cup (IF headerInfo.isCompressed THEN {"inflate", "inflated"} ELSE {})
    IN  IF PasswordMissing(headerInfo, password)
        THEN ExtractResult("error", "PasswordRequired", headerInfo, <<>>, {})
        ELSE IF headerInfo.isEncrypted /\ ~decryptOk
        THEN ExtractResult("error", "DecryptionFailed", headerInfo, <<>>, {"decrypt"})
        ELSE IF headerInfo.isCompressed /\ ~inflateOk
        THEN ExtractResult("error", "InflateError", headerInfo, <<>>, s1 \cup {"inflate"})
        ELSE IF ~hashEqual
        THEN ExtractResult("error", "HashMismatch", headerInfo, finalData, s2 \cup {"hash"})
        ELSE ExtractResult("ok", "none", headerInfo, finalData, s2 \cup {"hash", "hashEqual"})

\* extractFileAsync
extractFileAsync(pixelData, password) ==
    LET headerInfo == _readHeader(pixelData)
        fileDataFromImage ==
            IF headerInfo.encodingType = ENCODING_TYPE_LSB
            THEN _readDataWithBitDepth(pixelData, headerInfo.totalHeaderSize,
                                       headerInfo.fileSize, headerInfo.bitDepth)
            ELSE _readBytesDirectly(pixelData, headerInfo.totalHeaderSize,
                                    headerInfo.fileSize)
    \* fileDataFromImage is kept with the outcome: what was read after the header
    IN  IF ~headerInfo.ok
        THEN ExtractResult("error", headerInfo.error, headerInfo, <<>>, {})
                @@ [fileDataFromImage |-> <<>>]
        ELSE ExtractFromHeader(headerInfo, fileDataFromImage, password)
                @@ [fileDataFromImage |-> fileDataFromImage]

-----------------------------------------------------------------------------
(* Inputs *)

PayloadByteValues == {72, 255}

Payloads == UNION {[1..n -> PayloadByteValues] : n \in 0..MaxPayloadLen}

NameA == <<97>>                                   \* "a"
NameE == <<233, 46>>                              \* "e." with an acute accent: 3 bytes
LongName == [i \in 1..(MaxFileNameBytes + 1) |-> 97]
FullName == [i \in 1..MaxFileNameBytes |-> 97]  \* the longest name accepted

\* the scenario of the documentation: the payload HELLO in the file a.txt
Hello == <<72, 69, 76, 76, 79>>
NameATxt == <<97, 46, 116, 120, 116>>

\* a payload whose length needs two bytes of the size field
LargePayload == [i \in 1..260 |-> 72]

PasswordP == Password(<<112>>)
PasswordQ == Password(<<113>>)
PasswordEmpty == Password(<<>>)                   \* the empty string

\* values of crypto.getRandomValues(new Uint8Array(16))
IVs == {[i \in 1..IV_SIZE |-> 0], [i \in 1..IV_SIZE |-> (37 * i) % 256]}

\* what the password and the iv can be together: the iv matters only when
\* the hide encrypts
Secrets(passwords) ==
    {<<p, iv>> \in passwords \X IVs : ~p.isNull \/ iv = [i \in 1..IV_SIZE |-> 0]}

\* carrier images: opaque, of one colour or a fixed pattern
CarrierPixel(fill, i) ==
    IF i % 4 = 3 THEN 255
    ELSE IF fill = "pattern" THEN (37 * i + 11) % 256
    ELSE IF fill = "white" THEN 255 ELSE 0

Carrier(width, height, fill) ==
    [width |-> width, height |-> height,
     data |-> [x \in 1..(4 * width * height) |-> CarrierPixel(fill, x - 1)]]

-----------------------------------------------------------------------------
(* Actions of the scenario: one hide, a change of a byte by the environment,
   one extraction *)

CodecIdle == [phase |-> "off"]
UiOff == [screen |-> "off"]
NoExtract == [status |-> "none"]

InitIdle ==
    /\ pc = "idle"
    /\ req = [mode |-> "none"]
    /\ carrier = NoImage
    /\ image = NoImage
    /\ hideOut = [status |-> "none"]
    /\ tamper = [at |-> -1]
    /\ ui = UiOff
    /\ ext = NoExtract
    /\ codec = CodecIdle

AfterHide(out) ==
    /\ hideOut' = out
    /\ image' = out.image
    /\ pc' = IF out.status = "ok" THEN "hidden" ELSE "failed"
    /\ UNCHANGED <<tamper, ext, codec>>

\* a call of createCarrierImageAsync
CreateCarrier(payloads, names, passwords) ==
    /\ pc = "idle"
    /\ \E data \in payloads, name \in names, secret \in Secrets(passwords) :
          /\ req' = [mode |-> "generate", file |-> [name |-> name, data |-> data],
                     password |-> secret[1], bitDepth |-> 0, iv |-> secret[2]]
          /\ carrier' = NoImage
          /\ AfterHide(createCarrierImageAsync([name |-> name, data |-> data],
                                               secret[1], secret[2]))
    /\ UNCHANGED ui

\* a call of hideInExistingImageAsync
HideInExisting(payloads, names, passwords, depths, carriers) ==
    /\ pc = "idle"
    /\ \E data \in payloads, name \in names, secret \in Secrets(passwords),
          bitDepth \in depths, img \in carriers :
          /\ req' = [mode |-> "lsb", file |-> [name |-> name, data |-> data],
                     password |-> secret[1], bitDepth |-> bitDepth, iv |-> secret[2]]
          /\ carrier' = img
          /\ AfterHide(hideInExistingImageAsync([name |-> name, data |-> data], img,
                                                secret[1], bitDepth, secret[2]))
    /\ UNCHANGED ui

\* the image as it is after the embedded stream was replaced by bytes
Embed(img, mode, bitDepth, bytes) ==
    [img EXCEPT !.data = IF mode = "lsb"
                         THEN _writeDataWithBitDepth(img.data, bytes, bitDepth)
                         ELSE _writeBytesDirectly(img.data, bytes)]

\* the environment changes one byte of the embedded processed payload
TamperPayloadByte(masks) ==
    /\ pc = "hidden"
    /\ \E k \in 1..Len(hideOut.processed), mask \in masks :
          LET changed == [hideOut.processed EXCEPT ![k] = Xor(@, mask)]
          IN  /\ image' = Embed(image, req.mode, req.bitDepth, hideOut.header \o changed)
              /\ tamper' = [at |-> k - 1, mask |-> mask]
    /\ pc' = "tampered"
    /\ UNCHANGED <<req, carrier, hideOut, ext, codec, ui>>

\* a call of extractFileAsync on the image
ExtractFile(passwords) ==
    /\ pc \in {"hidden", "tampered"}
    /\ \E password \in passwords :
          ext' = extractFileAsync(image.data, password)
                    @@ [password |-> password, from |-> pc]
    /\ pc' = "extracted"
    /\ UNCHANGED <<req, carrier, image, hideOut, tamper, codec, ui>>

-----------------------------------------------------------------------------
(* Specifications *)

AllPasswords == {NullPassword, PasswordP, PasswordQ}
ShortNames == {NameA, NameE}
Fills == {"black", "white", "pattern"}

\* hide in either mode (bit depth 1 for LSB), extract with any password
Next ==
    \/ CreateCarrier(Payloads \cup {Hello}, ShortNames \cup {NameATxt}, AllPasswords)
    \/ HideInExisting(Payloads, ShortNames, AllPasswords, {1},
                      {Carrier(15, 15, "pattern"), Carrier(15, 15, "white"),
                       Carrier(7, 20, "black")})
    \/ ExtractFile(AllPasswords)

Spec == InitIdle /\ [][Next]_vars

\* hide in either mode, change one payload byte, extract
NextTamper ==
    \/ CreateCarrier(Payloads, {NameA}, {NullPassword, PasswordP})
    \/ HideInExisting(Payloads, {NameA}, {NullPassword, PasswordP}, {1},
                      {Carrier(15, 15, "pattern")})
    \/ TamperPayloadByte({1, 255})
    \/ ExtractFile({NullPassword, PasswordP})

SpecTamper == InitIdle /\ [][NextTamper]_vars

\* hide at every bit depth or generate an image, extract with or without the
\* password
NextDepth ==
    \/ CreateCarrier(Payloads, {NameA}, {NullPassword, PasswordP})
    \/ HideInExisting(Payloads, ShortNames, {NullPassword, PasswordP}, 1..8,
                      {Carrier(15, 15, f) : f \in Fills})
    \/ ExtractFile({NullPassword, PasswordP})

SpecDepth == InitIdle /\ [][NextDepth]_vars

\* the hide calls alone, on small and large carriers, with every file name
NextCapacity ==
    \/ CreateCarrier(Payloads \cup {LargePayload},
                     ShortNames \cup {FullName, LongName},
                     AllPasswords \cup {PasswordEmpty})
    \/ HideInExisting(Payloads, ShortNames \cup {FullName, LongName},
                      AllPasswords \cup {PasswordEmpty}, 1..8,
                      {Carrier(8, 8, "pattern"), Carrier(7, 20, "pattern"),
                       Carrier(15, 15, "pattern")})

SpecCapacity == InitIdle /\ [][NextCapacity]_vars

-----------------------------------------------------------------------------
(* Scenario of the bare codec: write a byte sequence, read a slice back *)

CodecByteValues == {0, 83, 255}
CodecFills == {0, 170, 255}

CodecData ==
    UNION {[1..n -> CodecByteValues] : n \in 1..MaxCodecBytes}

CodecBuffer(pixels, fill) == [x \in 1..(4 * pixels) |-> fill]

CodecCapacity(pixels, bitDepth) == (pixels * 3 * bitDepth) \div 8

InitCodec ==
    /\ pc = "codec"
    /\ req = [mode |-> "none"]
    /\ carrier = NoImage
    /\ image = NoImage
    /\ hideOut = [status |-> "none"]
    /\ tamper = [at |-> -1]
    /\ ui = UiOff
    /\ ext = NoExtract
    /\ \E bytes \in CodecData, bitDepth \in 1..8, fill \in CodecFills :
          /\ CodecCapacity(MaxCodecPixels, bitDepth) >= Len(bytes)
          /\ codec = [phase |-> "start", buf |-> CodecBuffer(MaxCodecPixels, fill),
                      before |-> CodecBuffer(MaxCodecPixels, fill),
                      bytes |-> bytes, bitDepth |-> bitDepth,
                      s |-> 0, n |-> 0, out |-> <<>>]

CodecWrite ==
    /\ codec.phase = "start"
    /\ codec' = [codec EXCEPT !.phase = "written",
                    !.buf = _writeDataWithBitDepth(codec.buf, codec.bytes, codec.bitDepth)]
    /\ UNCHANGED <<pc, req, carrier, image, hideOut, tamper, ext, ui>>

CodecRead ==
    /\ codec.phase = "written"
    /\ \E s \in 0..Len(codec.bytes) :
       \E n \in 0..(Len(codec.bytes) - s) :
          codec' = [codec EXCEPT !.phase = "read", !.s = s, !.n = n,
                       !.out = _readDataWithBitDepth(codec.buf, s, n, codec.bitDepth)]
    /\ UNCHANGED <<pc, req, carrier, image, hideOut, tamper, ext, ui>>

NextCodec == CodecWrite \/ CodecRead

SpecCodec == InitCodec /\ [][NextCodec]_vars

-----------------------------------------------------------------------------
(* Scenario of the alpha elements: either writer on a buffer whose alpha
   elements differ from pixel to pixel, then either reader *)

AlphaBases == {0, 200}
AlphaPixelCounts == {2, MaxCodecPixels}
AlphaFills == {170}

\* a buffer of one colour whose pixel p has the alpha value alpha + 16p
AlphaBuffer(pixels, fill, alpha) ==
    [x \in 1..(4 * pixels) |->
        IF (x - 1) % 4 = 3 THEN (alpha + 16 * ((x - 1) \div 4)) % 256 ELSE fill]

\* the buffer with every alpha element replaced by another value
OtherAlpha(buf) ==
    [x \in 1..Len(buf) |-> IF (x - 1) % 4 = 3 THEN 255 - buf[x] ELSE buf[x]]

InitAlpha ==
    /\ pc = "alpha"
    /\ req = [mode |-> "none"]
    /\ carrier = NoImage
    /\ image = NoImage
    /\ hideOut = [status |-> "none"]
    /\ tamper = [at |-> -1]
    /\ ui = UiOff
    /\ ext = NoExtract
    /\ \E bytes \in CodecData, pixels \in AlphaPixelCounts,
          fill \in AlphaFills, alpha \in AlphaBases :
          codec = [phase |-> "alphaStart", buf |-> AlphaBuffer(pixels, fill, alpha),
                   before |-> AlphaBuffer(pixels, fill, alpha),
                   bytes |-> bytes, bitDepth |-> 0, s |-> 0, n |-> 0, out |-> <<>>]

\* _writeBytesDirectly(buf, bytes)
AlphaWriteDirect ==
    /\ codec.phase = "alphaStart"
    /\ codec' = [codec EXCEPT !.phase = "alphaWritten",
                    !.buf = _writeBytesDirectly(codec.buf, codec.bytes)]
    /\ UNCHANGED <<pc, req, carrier, image, hideOut, tamper, ext, ui>>

\* _writeDataWithBitDepth(buf, bytes, bitDepth)
AlphaWriteBits ==
    /\ codec.phase = "alphaStart"
    /\ \E bitDepth \in 1..8 :
          codec' = [codec EXCEPT !.phase = "alphaWritten", !.bitDepth = bitDepth,
                       !.buf = _writeDataWithBitDepth(codec.buf, codec.bytes, bitDepth)]
    /\ UNCHANGED <<pc, req, carrier, image, hideOut, tamper, ext, ui>>

\* _readBytesDirectly(buf, s, n), from any offset to the end of the bytes
AlphaReadDirect ==
    /\ codec.phase = "alphaWritten"
    /\ \E s \in 0..Len(codec.bytes) :
       LET n == Len(codec.bytes) - s
       IN codec' = [codec EXCEPT !.phase = "alphaRead", !.s = s, !.n = n,
                       !.bitDepth = 0,
                       !.out = _readBytesDirectly(codec.buf, s, n)]
    /\ UNCHANGED <<pc, req, carrier, image, hideOut, tamper, ext, ui>>

\* _readDataWithBitDepth(buf, s, n, bitDepth), at any bit depth
AlphaReadBits ==
    /\ codec.phase = "alphaWritten"
    /\ \E s \in 0..Len(codec.bytes), bitDepth \in 1..8 :
       LET n == Len(codec.bytes) - s
       IN codec' = [codec EXCEPT !.phase = "alphaRead", !.s = s, !.n = n,
                       !.bitDepth = bitDepth,
                       !.out = _readDataWithBitDepth(codec.buf, s, n, bitDepth)]
    /\ UNCHANGED <<pc, req, carrier, image, hideOut, tamper, ext, ui>>

NextAlpha == AlphaWriteDirect \/ AlphaWriteBits \/ AlphaReadDirect \/ AlphaReadBits

SpecAlpha == InitAlpha /\ [][NextAlpha]_vars

-----------------------------------------------------------------------------
(* Scenario of the header: _createHeader with the arguments of either hide
   pipeline, the header embedded the way that pipeline embeds it, then
   _readHeader on the buffer *)

HeaderFileSizes == {0, 258, 196609, 1073741872}
HeaderFileNames == {<<>>, NameA, NameE, FullName, LongName}
HeaderHashes == {_computeSHA256(<<>>), _computeSHA256(<<255, 72>>)}

\* the arguments createCarrierImageAsync ("generate") and
\* hideInExistingImageAsync at bit depth 1 ("lsb") pass to _createHeader
HeaderArgs(mode, fileSize, fileName, sha256Hash, isEncrypted) ==
    [mode |-> mode, fileSize |-> fileSize, fileName |-> fileName,
     sha256Hash |-> sha256Hash, isEncrypted |-> isEncrypted,
     encodingType |-> IF mode = "lsb" THEN ENCODING_TYPE_LSB
                      ELSE ENCODING_TYPE_GENERATED,
     isCompressed |-> mode = "lsb",
     bitDepth |-> IF mode = "lsb" THEN 1 ELSE 0]

\* the smallest square of pixels whose capacity at bit depth 1 holds n bytes
HeaderCarrierSide(n) == CeilSqrt(CeilDiv(8 * n, 3))

InitHeader ==
    /\ pc = "header"
    /\ req = [mode |-> "none"]
    /\ carrier = NoImage
    /\ image = NoImage
    /\ hideOut = [status |-> "none"]
    /\ tamper = [at |-> -1]
    /\ ui = UiOff
    /\ ext = NoExtract
    /\ \E mode \in {"generate", "lsb"}, fileSize \in HeaderFileSizes,
          fileName \in HeaderFileNames, sha256Hash \in HeaderHashes,
          isEncrypted \in BOOLEAN :
          codec = [phase |-> "headerStart",
                   args |-> HeaderArgs(mode, fileSize, fileName, sha256Hash, isEncrypted),
                   header |-> <<>>, buf |-> <<>>, out |-> NoHeader("none")]

\* _createHeader(...)
HeaderCreate ==
    /\ codec.phase = "headerStart"
    /\ LET a == codec.args
           made == _createHeader(a.fileSize, a.fileName, a.sha256Hash, a.isEncrypted,
                                 a.encodingType, a.isCompressed, a.bitDepth)
       IN  codec' = [codec EXCEPT !.phase = IF made.ok THEN "headerMade" ELSE "headerFailed",
                                  !.header = made.bytes]
    /\ UNCHANGED <<pc, req, carrier, image, hideOut, tamper, ext, ui>>

\* the header written the way its pipeline writes it: _writeBytesDirectly on
\* the white canvas, _writeDataWithBitDepth at depth 1 on a carrier image
HeaderEmbed ==
    /\ codec.phase = "headerMade"
    /\ \E fill \in Fills :
          LET total == Len(codec.header)
              side == IF codec.args.mode = "lsb" THEN HeaderCarrierSide(total)
                      ELSE CeilSqrt(CeilDiv(total, BYTES_PER_PIXEL_GENERATED))
          IN  /\ codec.args.mode = "generate" => fill = "white"
              /\ codec' = [codec EXCEPT !.phase = "headerEmbedded",
                     !.buf = IF codec.args.mode = "lsb"
                             THEN _writeDataWithBitDepth(Carrier(side, side, fill).data,
                                                         codec.header, 1)
                             ELSE _writeBytesDirectly(WhiteCanvas(side), codec.header)]
    /\ UNCHANGED <<pc, req, carrier, image, hideOut, tamper, ext, ui>>

\* _readHeader(buf)
HeaderRead ==
    /\ codec.phase = "headerEmbedded"
    /\ codec' = [codec EXCEPT !.phase = "headerRead", !.out = _readHeader(codec.buf)]
    /\ UNCHANGED <<pc, req, carrier, image, hideOut, tamper, ext, ui>>

NextHeader == HeaderCreate \/ HeaderEmbed \/ HeaderRead

SpecHeader == InitHeader /\ [][NextHeader]_vars

-----------------------------------------------------------------------------
(* Scenario of the sizing of the generated image: the side of the canvas for
   a total length, then the direct write of that many bytes *)

SizingPatterns == {7, 255}

\* totalData of a given length
SizingBytes(total, pattern) == [i \in 1..total |-> (pattern * i) % 256]

InitSizing ==
    /\ pc = "sizing"
    /\ req = [mode |-> "none"]
    /\ carrier = NoImage
    /\ image = NoImage
    /\ hideOut = [status |-> "none"]
    /\ tamper = [at |-> -1]
    /\ ui = UiOff
    /\ ext = NoExtract
    /\ \E total \in 1..MaxDirectTotal, pattern \in SizingPatterns :
          codec = [phase |-> "sizeStart", bytes |-> SizingBytes(total, pattern),
                   pixelCount |-> 0, imageSize |-> 0, buf |-> <<>>]

\* pixelCount = Math.ceil(totalData.length / 3); imageSize = ceil(sqrt(pixelCount))
SizeCanvas ==
    /\ codec.phase = "sizeStart"
    /\ LET pixelCount == CeilDiv(Len(codec.bytes), BYTES_PER_PIXEL_GENERATED)
       IN  codec' = [codec EXCEPT !.phase = "sized", !.pixelCount = pixelCount,
                                  !.imageSize = CeilSqrt(pixelCount)]
    /\ UNCHANGED <<pc, req, carrier, image, hideOut, tamper, ext, ui>>

\* fillRect in white, getImageData, _writeBytesDirectly(imageData.data, totalData)
SizeWrite ==
    /\ codec.phase = "sized"
    /\ codec' = [codec EXCEPT !.phase = "sizeWritten",
                    !.buf = _writeBytesDirectly(WhiteCanvas(codec.imageSize), codec.bytes)]
    /\ UNCHANGED <<pc, req, carrier, image, hideOut, tamper, ext, ui>>

NextSizing == SizeCanvas \/ SizeWrite

SpecSizing == InitSizing /\ [][NextSizing]_vars

-----------------------------------------------------------------------------
(* The App component (App.js) on the screen "hide in an existing image"
   (mode 'crypt', stegoMode 'lsb'): the user drops a payload file or a
   carrier image, the effect of these selections starts checkCapacity, whose
   asynchronous run finishes later with the values it captured; the user
   moves the bit depth slider, presses the button of handleProcess, or
   leaves the screen for another mode and comes back *)

NoSelection == [set |-> FALSE]
NoError == [kind |-> "none", maxCapacity |-> 0]

\* the payload files the user can drop: 53, 54 and 55 bytes are required for
\* the first three, the name of the last is too long for a header
UiFiles ==
    {[name |-> NameE, data |-> [i \in 1..n |-> 72]] : n \in 0..2}
    \cup {[name |-> LongName, data |-> <<>>]}

\* img.width and img.height of the carrier images the user can drop: the
\* capacity of the first is 54 bytes at bit depth 8, that of the second 54
\* bytes at bit depth 4
UiCarrierSizes ==
    {[width |-> 3, height |-> 6], [width |-> 6, height |-> 6]}

\* a variant of ScanDepth that asks for a byte to spare
RECURSIVE ScanDepthStrict(_, _, _)
ScanDepthStrict(requiredBytes, size, depth) ==
    IF depth > 8 THEN 0
    ELSE IF requiredBytes < (size.width * size.height * 3 * depth) \div 8
    THEN depth
    ELSE ScanDepthStrict(requiredBytes, size, depth + 1)

\* for (let depth = 1; depth <= 8; depth++) of checkCapacity: the first depth
\* whose capacity holds requiredBytes, 0 when the loop ends without one
RECURSIVE ScanDepth(_, _, _)
ScanDepth(requiredBytes, size, depth) ==
    IF depth > 8 THEN 0
    ELSE IF requiredBytes <= (size.width * size.height * 3 * depth) \div 8
    THEN depth
    ELSE ScanDepth(requiredBytes, size, depth + 1)

\* requiredBytes of checkCapacity: the header built with a zero hash, not
\* encrypted, bit depth 1, and the deflated payload
CheckCapacityRequired(file) ==
    LET compressedPayload == Deflate(file.data)
        header == _createHeader(Len(compressedPayload), file.name,
                                [i \in 1..SHA256_SIZE |-> 0], FALSE,
                                ENCODING_TYPE_LSB, TRUE, 1)
    IN  [ok |-> header.ok,
         requiredBytes |-> Len(header.bytes) + Len(compressedPayload)]

InitUi ==
    /\ pc = "idle"
    /\ req = [mode |-> "none"]
    /\ carrier = NoImage
    /\ image = NoImage
    /\ hideOut = [status |-> "none"]
    /\ tamper = [at |-> -1]
    /\ ext = NoExtract
    /\ codec = CodecIdle
    /\ ui = [screen |-> "lsb", payloadFile |-> NoSelection,
             carrierImgSize |-> NoSelection, bitDepth |-> 1, minBitDepth |-> 1,
             payloadTooLargeError |-> NoError, runs |-> {},
             scan |-> [done |-> FALSE], result |-> [success |-> FALSE, message |-> "none"],
             last |-> "none", selections |-> 0]

\* the effect on [payloadFile, carrierImgSize, mode, stegoMode]: with both
\* selected a run of checkCapacity starts, else the error is cleared
UiAfterSelection(next) ==
    IF next.payloadFile.set /\ next.carrierImgSize.set
    THEN [next EXCEPT !.runs = @ \cup {[file |-> next.payloadFile.file,
                                        size |-> next.carrierImgSize.size]}]
    ELSE [next EXCEPT !.payloadTooLargeError = NoError]

\* onDrop of the first dropzone: setPayloadFile
UiSelectPayload ==
    /\ pc = "idle" /\ ui.screen = "lsb" /\ ui.selections < MaxUiSelections
    /\ \E file \in UiFiles :
          ui' = UiAfterSelection([ui EXCEPT
                    !.payloadFile = [set |-> TRUE, file |-> file],
                    !.selections = @ + 1, !.last = "select"])
    /\ UNCHANGED <<pc, req, carrier, image, hideOut, tamper, ext, codec>>

\* onDrop of the second dropzone and img.onload: setCarrierImgSize
UiSelectCarrier ==
    /\ pc = "idle" /\ ui.screen = "lsb" /\ ui.selections < MaxUiSelections
    /\ \E size \in UiCarrierSizes :
          ui' = UiAfterSelection([ui EXCEPT
                    !.carrierImgSize = [set |-> TRUE, size |-> size],
                    !.selections = @ + 1, !.last = "select"])
    /\ UNCHANGED <<pc, req, carrier, image, hideOut, tamper, ext, codec>>

\* a run of checkCapacity finishes: the scan of the depths 1..8 and its setters
UiCheckCapacityDone ==
    /\ pc = "idle"
    /\ \E run \in ui.runs :
          LET required == CheckCapacityRequired(run.file)
              depth == ScanDepth(required.requiredBytes, run.size, 1)
              maxCapacity == (run.size.width * run.size.height * 3 * 8) \div 8
              done == [ui EXCEPT !.runs = @ \ {run}, !.last = "scan",
                          !.scan = [done |-> TRUE, ok |-> required.ok,
                                    requiredBytes |-> required.requiredBytes,
                                    size |-> run.size,
                                    bitDepthBefore |-> ui.bitDepth,
                                    minBitDepthBefore |-> ui.minBitDepth]]
          IN  ui' = IF ~required.ok
                    THEN [done EXCEPT !.payloadTooLargeError =
                             [kind |-> "couldNotCalculate", maxCapacity |-> 0]]
                    ELSE IF depth # 0
                    THEN [done EXCEPT !.minBitDepth = depth, !.bitDepth = depth,
                                      !.payloadTooLargeError = NoError]
                    ELSE [done EXCEPT !.payloadTooLargeError =
                             [kind |-> "tooLarge", maxCapacity |-> maxCapacity]]
    /\ UNCHANGED <<pc, req, carrier, image, hideOut, tamper, ext, codec>>

\* onChange of the slider, which is shown without an error and runs from
\* minBitDepth to 8
UiSetBitDepth ==
    /\ pc = "idle" /\ ui.screen = "lsb"
    /\ ui.payloadFile.set /\ ui.carrierImgSize.set
    /\ ui.payloadTooLargeError.kind = "none"
    /\ \E depth \in ui.minBitDepth..8 :
          /\ depth # ui.bitDepth
          /\ ui' = [ui EXCEPT !.bitDepth = depth, !.last = "slider"]
    /\ UNCHANGED <<pc, req, carrier, image, hideOut, tamper, ext, codec>>

\* handleProcess with the too-large error set: the message is shown and no
\* hide starts
UiProcessRefused ==
    /\ pc = "idle" /\ ui.screen = "lsb"
    /\ ui.payloadFile.set /\ ui.carrierImgSize.set
    /\ ui.payloadTooLargeError.kind # "none"
    /\ ui' = [ui EXCEPT !.last = "process",
                 !.result = [success |-> FALSE, message |-> ui.payloadTooLargeError.kind]]
    /\ UNCHANGED <<pc, req, carrier, image, hideOut, tamper, ext, codec>>

\* handleProcess without the error: hideInExistingImageAsync with the payload,
\* the carrier, the password typed (null when empty) and the bit depth
UiProcessHide ==
    /\ pc = "idle" /\ ui.screen = "lsb"
    /\ ui.payloadFile.set /\ ui.carrierImgSize.set
    /\ ui.payloadTooLargeError.kind = "none"
    /\ \E typed \in {PasswordEmpty, PasswordP} :
          LET usePassword == IF Len(typed.chars) > 0 THEN typed ELSE NullPassword
              img == Carrier(ui.carrierImgSize.size.width,
                             ui.carrierImgSize.size.height, "pattern")
              iv == [i \in 1..IV_SIZE |-> 0]
              out == hideInExistingImageAsync(ui.payloadFile.file, img, usePassword,
                                              ui.bitDepth, iv)
          IN  /\ req' = [mode |-> "lsb", file |-> ui.payloadFile.file,
                         password |-> usePassword, bitDepth |-> ui.bitDepth, iv |-> iv]
              /\ carrier' = img
              /\ AfterHide(out)
              /\ ui' = [ui EXCEPT !.last = "process",
                           !.result = [success |-> out.status = "ok",
                                       message |-> out.error]]

\* the user changes mode or stegoMode: the effect on [mode, stegoMode] resets
\* the selections, the error and both depths; the runs of checkCapacity in
\* flight go on.  Of the other screens only the way back is followed.
UiSwitchMode ==
    /\ pc = "idle"
    /\ ui' = [ui EXCEPT !.screen = IF @ = "lsb" THEN "generate" ELSE "lsb",
                 !.payloadFile = NoSelection, !.carrierImgSize = NoSelection,
                 !.result = [success |-> FALSE, message |-> "none"],
                 !.payloadTooLargeError = NoError,
                 !.bitDepth = 1, !.minBitDepth = 1, !.last = "mode"]
    /\ UNCHANGED <<pc, req, carrier, image, hideOut, tamper, ext, codec>>

NextUi ==
    \/ UiSwitchMode
    \/ UiSelectPayload
    \/ UiSelectCarrier
    \/ UiCheckCapacityDone
    \/ UiSetBitDepth
    \/ UiProcessRefused
    \/ UiProcessHide

SpecUi == InitUi /\ [][NextUi]_vars

-----------------------------------------------------------------------------
(* The ClientImageProcessor of soc-frontend
   (src/soc-frontend/src/ClientImageProcessor.js): its header, its pixel
   writer and its createCarrierImageAsync; digest, key derivation and
   encryption are those of the services version *)

FRONTEND_MAX_FILE_SIZE == 10485760
BYTES_PER_PIXEL == 4

\* writeBytesToImageData: arrayIndex = floor(i/4)*4 + i%4 = i
writeBytesToImageData(imageData, bytes) ==
    [x \in 1..Len(imageData) |->
        LET i == x - 1
            pixelOffset == i % 4
            pixelPosition == i \div 4
            arrayIndex == pixelPosition * 4 + pixelOffset
        IN  IF i < Len(bytes) /\ arrayIndex < Len(imageData)
            THEN bytes[arrayIndex + 1]
            ELSE imageData[x]]

\* createHeader: 'SC', the size in two 32-bit words, the name length in 4
\* bytes, the name, isEncrypted, padding to a multiple of 4, the hash.
\* fileSize >>> 32 shifts by 32 mod 32 = 0, so the high word repeats the low
\* word (sizes below 2^31 here)
createHeader(fileSize, fileName, sha256Hash, isEncrypted) ==
    LET fileNameBytes == Utf8Encode(fileName)
        currentSize == 2 + 8 + 4 + Len(fileNameBytes) + 1
        padding == (4 - (currentSize % 4)) % 4
    IN  IF Len(fileNameBytes) > 255
        THEN [ok |-> FALSE, error |-> "FilenameTooLong", bytes |-> <<>>]
        ELSE [ok |-> TRUE, error |-> "none",
              bytes |-> SIGNATURE
                        \o LittleEndian(fileSize, 4) \o LittleEndian(fileSize, 4)
                        \o LittleEndian(Len(fileNameBytes), 4)
                        \o fileNameBytes
                        \o <<FlagByte(isEncrypted)>>
                        \o [i \in 1..padding |-> 0]
                        \o sha256Hash]

\* createCarrierImageAsync of soc-frontend
SocFrontend_createCarrierImageAsync(file, password, iv) ==
    LET fileData == file.data
        isEncrypted == ~password.isNull                    \* password != null
        sha256Hash == _computeSHA256(fileData)
        processedData == IF isEncrypted
                         THEN _encryptData(fileData, password, iv)
                         ELSE fileData
        header == createHeader(Len(processedData), file.name, sha256Hash, isEncrypted)
        totalData == header.bytes \o processedData
        pixelCount == CeilDiv(Len(totalData), BYTES_PER_PIXEL)
        imageSize == CeilSqrt(pixelCount)
    IN  IF Len(fileData) > FRONTEND_MAX_FILE_SIZE
        THEN HideFailed("FileTooLarge", 0, 0)
        ELSE IF ~header.ok
        THEN HideFailed(header.error, 0, 0)
        ELSE HideDone([width |-> imageSize, height |-> imageSize,
                       data |-> writeBytesToImageData(WhiteCanvas(imageSize), totalData)],
                      header.bytes, processedData)

\* readBytesFromPixelData, and readFileData whose loop is the same:
\* arrayIndex = startIndex + i, an element past the end is left 0
readBytesFromPixelData(pixelData, startIndex, length) ==
    [k \in 1..length |->
        LET pixelIndex == startIndex + (k - 1)
            arrayIndex == (pixelIndex \div 4) * 4 + (pixelIndex % 4)
        IN  PixelAt(pixelData, arrayIndex)]

\* readHeader of soc-frontend; fileSize is getUint32(0) + getUint32(4) * 2^32,
\* the value of the 8 bytes, little endian
readHeader(pixelData) ==
    LET signatureBytes == readBytesFromPixelData(pixelData, 0, 2)
        fileSize == SizeValue(readBytesFromPixelData(pixelData, 2, 8))
        fileNameLengthBytes == readBytesFromPixelData(pixelData, 10, 4)
        fileNameLength == fileNameLengthBytes[1] + 256 * fileNameLengthBytes[2]
                            + 65536 * fileNameLengthBytes[3]
                            + 16777216 * (fileNameLengthBytes[4] % 128)
        fileNameBytes == readBytesFromPixelData(pixelData, 14, fileNameLength)
        isEncrypted == readBytesFromPixelData(pixelData, 14 + fileNameLength, 1)[1] = 1
        headerWithoutHash == 2 + 8 + 4 + fileNameLength + 1
        sha256Offset == headerWithoutHash + ((4 - (headerWithoutHash % 4)) % 4)
    IN  IF signatureBytes # SIGNATURE
        THEN NoHeader("none")
        ELSE [ok |-> TRUE, error |-> "none", fileSize |-> fileSize,
              fileName |-> Utf8Decode(fileNameBytes), isEncrypted |-> isEncrypted,
              sha256Hash |-> readBytesFromPixelData(pixelData, sha256Offset, SHA256_SIZE),
              totalHeaderSize |-> sha256Offset + SHA256_SIZE]

\* extractFileAsync of soc-frontend: the hash is compared before the
\* decryption.  new Uint8Array(fileSize) for a size of 2^32 or more either
\* throws a RangeError or, where the engine has the memory (allocates), gives
\* an array longer than any payload, whose digest is not the stored one.
SocFrontend_extractFileAsync(pixelData, password, allocates) ==
    LET headerInfo == readHeader(pixelData)
        fileData == readBytesFromPixelData(pixelData, headerInfo.totalHeaderSize,
                                           headerInfo.fileSize)
        hashEqual == _arraysEqual(_computeSHA256(fileData), headerInfo.sha256Hash)
        finalData == IF headerInfo.isEncrypted THEN _decryptData(fileData, password)
                     ELSE fileData
        s1 == IF headerInfo.isEncrypted THEN {"hash", "hashEqual", "decrypt"}
              ELSE {"hash", "hashEqual"}
    IN  IF ~headerInfo.ok
        THEN ExtractResult("error", headerInfo.error, headerInfo, <<>>, {})
        ELSE IF headerInfo.fileSize >= 2147483647
        THEN IF allocates
             THEN ExtractResult("error", "HashMismatch", headerInfo, <<>>, {"hash"})
             ELSE ExtractResult("error", "RangeError", headerInfo, <<>>, {})
        ELSE IF ~hashEqual
        THEN ExtractResult("error", "HashMismatch", headerInfo, <<>>, {"hash"})
                @@ [fileDataFromImage |-> fileData]
        ELSE IF PasswordMissing(headerInfo, password)
        THEN ExtractResult("error", "PasswordRequired", headerInfo, <<>>,
                           {"hash", "hashEqual"})
                @@ [fileDataFromImage |-> fileData]
        ELSE IF headerInfo.isEncrypted /\ ~DecryptOk(fileData, password)
        THEN ExtractResult("error", "DecryptionFailed", headerInfo, <<>>, s1)
                @@ [fileDataFromImage |-> fileData]
        ELSE ExtractResult("ok", "none", headerInfo, finalData,
                           s1 \cup (IF headerInfo.isEncrypted THEN {"decrypted"} ELSE {}))
                @@ [fileDataFromImage |-> fileData]

\* a call of createCarrierImageAsync of soc-frontend
FrontendCreateCarrier(payloads, names, passwords) ==
    /\ pc = "idle"
    /\ \E data \in payloads, name \in names, secret \in Secrets(passwords) :
          /\ req' = [mode |-> "frontend", file |-> [name |-> name, data |-> data],
                     password |-> secret[1], bitDepth |-> 0, iv |-> secret[2]]
          /\ carrier' = NoImage
          /\ AfterHide(SocFrontend_createCarrierImageAsync(
                          [name |-> name, data |-> data], secret[1], secret[2]))
    /\ UNCHANGED ui

\* a call of extractFileAsync of soc-frontend on the image
FrontendExtractFile(passwords) ==
    /\ pc = "hidden"
    /\ \E password \in passwords, allocates \in BOOLEAN :
          ext' = SocFrontend_extractFileAsync(image.data, password, allocates)
                    @@ [password |-> password, from |-> pc]
    /\ pc' = "extracted"
    /\ UNCHANGED <<req, carrier, image, hideOut, tamper, codec, ui>>

NextFrontend ==
    \/ FrontendCreateCarrier(Payloads \cup {Hello}, ShortNames \cup {NameATxt, LongName},
                             AllPasswords)
    \/ FrontendExtractFile(AllPasswords)

SpecFrontend == InitIdle /\ [][NextFrontend]_vars

-----------------------------------------------------------------------------
(* Scenario of the password values: hide with no password, the empty string
   or a non-empty one, extract with any of them or read the metadata *)

\* extractMetadataAsync: the header of the image, read without a password
extractMetadataAsync(pixelData) == _readHeader(pixelData)

\* a call of extractMetadataAsync on the image
ExtractMetadata ==
    /\ pc = "hidden"
    /\ ext' = [status |-> "metadata", header |-> extractMetadataAsync(image.data)]
    /\ pc' = "metadata"
    /\ UNCHANGED <<req, carrier, image, hideOut, tamper, codec, ui>>

NextPassword ==
    \/ CreateCarrier(Payloads, ShortNames, AllPasswords \cup {PasswordEmpty})
    \/ HideInExisting(Payloads, ShortNames, AllPasswords \cup {PasswordEmpty}, {1},
                      {Carrier(15, 15, "pattern")})
    \/ ExtractFile(AllPasswords \cup {PasswordEmpty})
    \/ ExtractMetadata

SpecPassword == InitIdle /\ [][NextPassword]_vars

-----------------------------------------------------------------------------
(* The loops of extraction, one step for every iteration: _readHeader and
   the payload read of extractFileAsync on a pixel buffer whose header bytes
   declare any encodingType and bitDepth.  extractMetadataAsync ends after
   the header.  A read by _readBytesDirectly is one step (its loop counts i
   up to length and nothing else); _readDataWithBitDepth is followed
   iteration by iteration. *)

TerminateDepths == {0, 1, 3, 8, 9, 200}

\* the 5 bytes of the probe followed by fileSize 1, the name "a", not
\* encrypted, a hash and one payload byte
TerminateBytes(encodingType, bitDepth) ==
    <<83, 67, encodingType, 0, bitDepth>> \o SizeBytes(1) \o <<1, 97, 0>>
        \o [i \in 1..SHA256_SIZE |-> i] \o <<72>>

\* pixel buffers that pass a probe: the bytes written directly in images of
\* 2 and of 17 pixels, and at bit depth 1 in an image of 135 pixels
TerminateBuffers ==
    {_writeBytesDirectly(CodecBuffer(pixels, 0), TerminateBytes(e, d)) :
        pixels \in {2, 17}, e \in {0, 1}, d \in TerminateDepths}
    \cup {_writeDataWithBitDepth(CodecBuffer(135, 0), TerminateBytes(e, d), 1) :
        e \in {0, 1}, d \in TerminateDepths}

InitTerminate ==
    /\ pc = "extracting"
    /\ req = [mode |-> "none"]
    /\ carrier = NoImage
    /\ image = NoImage
    /\ hideOut = [status |-> "none"]
    /\ tamper = [at |-> -1]
    /\ ui = UiOff
    /\ ext = NoExtract
    /\ \E pixelData \in TerminateBuffers,
          entry \in {"extractFileAsync", "extractMetadataAsync"} :
          codec = [phase |-> "probe", entry |-> entry, pixelData |-> pixelData,
                   encodingType |-> 0, bitDepth |-> 0, fileSize |-> 0,
                   fileNameLength |-> 0, field |-> "none", length |-> 0,
                   i |-> 0, j |-> 0, bitIndex |-> 0, currentByte |-> 0,
                   bytes |-> <<>>, turn |-> 0, error |-> "none"]

\* a call of readFunc(offset, length) begins: the declared reader is entered
StartRead(c, field, offset, length) ==
    [c EXCEPT !.phase = IF c.encodingType = ENCODING_TYPE_LSB THEN "outer" ELSE "direct",
              !.field = field, !.length = length, !.i = 0, !.j = 0,
              !.bitIndex = offset * 8, !.currentByte = 0, !.bytes = <<>>]

\* a call of readFunc has returned value: _readHeader goes on with the next
\* field, extractFileAsync with the payload, and the call ends after the last
AfterRead(c, value) ==
    IF c.field = "fileSize"
    THEN StartRead([c EXCEPT !.fileSize = SizeValue(value)], "fileNameLength", 13, 1)
    ELSE IF c.field = "fileNameLength"
    THEN StartRead([c EXCEPT !.fileNameLength = value[1]], "fileName", 14, value[1])
    ELSE IF c.field = "fileName"
    THEN StartRead(c, "isEncrypted", 14 + c.fileNameLength, 1)
    ELSE IF c.field = "isEncrypted"
    THEN StartRead(c, "sha256Hash", 15 + c.fileNameLength, SHA256_SIZE)
    ELSE IF c.field = "sha256Hash" /\ c.entry = "extractFileAsync"
    THEN StartRead(c, "payload", 15 + c.fileNameLength + SHA256_SIZE, c.fileSize)
    ELSE [c EXCEPT !.phase = "returned"]

\* the two probes of _readHeader (5 bytes at bit depth 1, 5 bytes directly)
TerminateProbe ==
    /\ codec.phase = "probe"
    /\ LET lsb == _readDataWithBitDepth(codec.pixelData, 0, 5, 1)
           direct == _readBytesDirectly(codec.pixelData, 0, 5)
           sigBytes == IF SubSeq(lsb, 1, 2) = SIGNATURE THEN lsb ELSE direct
       IN  codec' = IF SubSeq(sigBytes, 1, 2) # SIGNATURE
                    THEN [codec EXCEPT !.phase = "returned", !.error = "InvalidSignature"]
                    ELSE StartRead([codec EXCEPT !.encodingType = sigBytes[3],
                                                 !.bitDepth = sigBytes[5]],
                                   "fileSize", 5, 8)
    /\ UNCHANGED <<pc, req, carrier, image, hideOut, tamper, ext, ui>>

\* a whole call of _readBytesDirectly (the payload bytes are not kept)
TerminateReadDirect ==
    /\ codec.phase = "direct"
    /\ codec' = AfterRead(codec,
                    IF codec.field = "payload" THEN <<>>
                    ELSE _readBytesDirectly(codec.pixelData, codec.bitIndex \div 8,
                                            codec.length))
    /\ UNCHANGED <<pc, req, carrier, image, hideOut, tamper, ext, ui>>

\* for (let i = 0; i < length; i++) { let currentByte = 0; ...: one more byte
\* begins.  Once bitIndex is past the end of the buffer every remaining
\* iteration breaks out of the inner loop at once and stores 0: these are
\* taken together.
TerminateOuter ==
    /\ codec.phase = "outer" /\ codec.i < codec.length
    /\ codec' = IF codec.bitIndex >= Len(codec.pixelData) * 8
                THEN [codec EXCEPT !.i = codec.length,
                         !.bytes = IF codec.field = "payload" THEN <<>>
                                   ELSE @ \o [k \in 1..(codec.length - codec.i) |-> 0]]
                ELSE [codec EXCEPT !.phase = "inner", !.j = 0, !.currentByte = 0]
    /\ UNCHANGED <<pc, req, carrier, image, hideOut, tamper, ext, ui>>

\* one iteration of for (let j = 0; j < 8; j += bitDepth): with bitDepth 0
\* the divisions give Infinity and NaN, pixelData[NaN] is undefined and
\* undefined & 0 is 0; a shift takes its count modulo 32 (currentByte stays
\* far below 2^31: a bit depth of 8 or more leaves one iteration for a byte)
TerminateInner ==
    /\ codec.phase = "inner"
    /\ codec.j < 8 /\ codec.bitIndex < Len(codec.pixelData) * 8
    /\ LET bitDepth == codec.bitDepth
           pixelIndex == codec.bitIndex \div (3 * bitDepth)
           channelOffset == (codec.bitIndex % (3 * bitDepth)) \div bitDepth
           bits == IF bitDepth = 0 THEN 0
                   ELSE PixelAt(codec.pixelData, pixelIndex * 4 + channelOffset)
                            % Pow2(bitDepth % 32)
       IN  codec' = [codec EXCEPT
                        !.currentByte = (@ * Pow2(bitDepth % 32)) + bits,
                        !.bitIndex = @ + bitDepth,
                        !.j = @ + bitDepth,
                        !.turn = 1 - @]
    /\ UNCHANGED <<pc, req, carrier, image, hideOut, tamper, ext, ui>>

\* the inner loop ends (j >= 8, or the break at the end of the buffer):
\* bytes[i] = currentByte
TerminateInnerExit ==
    /\ codec.phase = "inner"
    /\ ~(codec.j < 8 /\ codec.bitIndex < Len(codec.pixelData) * 8)
    /\ codec' = [codec EXCEPT !.phase = "outer", !.i = @ + 1,
                    !.bytes = IF codec.field = "payload" THEN <<>>
                              ELSE Append(@, codec.currentByte % 256)]
    /\ UNCHANGED <<pc, req, carrier, image, hideOut, tamper, ext, ui>>

\* return bytes
TerminateReturn ==
    /\ codec.phase = "outer" /\ codec.i >= codec.length
    /\ codec' = AfterRead(codec, codec.bytes)
    /\ UNCHANGED <<pc, req, carrier, image, hideOut, tamper, ext, ui>>

NextTerminate ==
    \/ TerminateProbe
    \/ TerminateReadDirect
    \/ TerminateOuter
    \/ TerminateInner
    \/ TerminateInnerExit
    \/ TerminateReturn

\* the calls run to their end: JavaScript goes on with the next iteration
SpecTerminate == InitTerminate /\ [][NextTerminate]_vars /\ WF_vars(NextTerminate)

-----------------------------------------------------------------------------
(* The claims *)

Extracted == pc = "extracted"
ExtractedUntouched == pc = "extracted" /\ ext.from = "hidden"
Recovered ==
    /\ ext.status = "ok"
    /\ ext.fileName = req.file.name
    /\ ext.data = req.file.data

\* C1: a file hidden by createCarrierImageAsync without a password comes back
\* from extractFileAsync with the same name and bytes; the depth-1 probe does
\* not match, the direct one does, and the hash check passes
C1_DirectRoundTrip ==
    (ExtractedUntouched /\ req.mode = "generate" /\ req.password.isNull)
        => /\ Recovered
           /\ ext.header.probe = "direct"
           /\ ext.hashChecked /\ ext.hashEqual

C1_Witness ==
    /\ ExtractedUntouched /\ req.mode = "generate" /\ req.password.isNull
    /\ req.file.name = NameE /\ Len(req.file.data) = MaxPayloadLen
    /\ ext.status = "ok" /\ ext.header.probe = "direct"

\* C2: a file hidden by hideInExistingImageAsync at bit depth 1, with no
\* password or a non-empty one, in a carrier that has room for it, comes back
\* from extractFileAsync given the same password, whatever the carrier held
C2_BitPlaneRoundTrip ==
    (/\ ExtractedUntouched /\ req.mode = "lsb" /\ req.bitDepth = 1
     /\ (req.password.isNull \/ req.password.chars # <<>>)
     /\ ext.password = req.password)
        => Recovered /\ ext.header.probe = "lsb"

C2_Witness ==
    /\ ExtractedUntouched /\ req.mode = "lsb" /\ req.bitDepth = 1
    /\ req.password = PasswordP /\ ext.password = PasswordP
    /\ carrier = Carrier(15, 15, "pattern")
    /\ Len(req.file.data) = MaxPayloadLen
    /\ ext.status = "ok" /\ ext.decryptOk /\ ext.inflateOk

\* C3: at every bit depth 1..8 a slice read back by _readDataWithBitDepth
\* after _writeDataWithBitDepth is the slice of the bytes that were written
C3_CodecRoundTrip ==
    codec.phase = "read" => codec.out = Slice(codec.bytes, codec.s, codec.n)

C5_HashGate ==
    Extracted =>
        /\ ext.status = "ok"
              => /\ ext.hashChecked
                 /\ _computeSHA256(ext.data) = ext.header.sha256Hash
        /\ (ext.hashChecked /\ ~ext.hashEqual) => ext.error = "HashMismatch"
        /\ ext.error = "DecryptionFailed" => (ext.decryptCalled /\ ~ext.decryptOk)
        /\ ext.error = "HashMismatch"
              => (ext.header.isEncrypted => ext.decryptOk) /\ ~ext.hashEqual

C5_Witness ==
    /\ Extracted /\ ext.from = "tampered"
    /\ ext.header.isEncrypted /\ ext.decryptOk
    /\ ext.error = "HashMismatch"

WrongPassword ==
    /\ ExtractedUntouched
    /\ ~req.password.isNull /\ req.password.chars # <<>>
    /\ ~ext.password.isNull /\ ext.password.chars # <<>>
    /\ ext.password # req.password

TamperedSamePassword ==
    Extracted /\ ext.from = "tampered" /\ ext.password = req.password

C8_PasswordPreflight ==
    (Extracted /\ ext.header.ok)
        => /\ (ext.header.isEncrypted /\ ~Truthy(ext.password))
                 => /\ ext.status = "error" /\ ext.error = "PasswordRequired"
                    /\ ~ext.decryptCalled /\ ~ext.inflateCalled /\ ~ext.hashChecked
           /\ ~ext.header.isEncrypted
                 => /\ ~ext.decryptCalled
                    /\ ext.error # "PasswordRequired"
                    /\ ext.from = "hidden" => Recovered

C8_Witness ==
    /\ Extracted /\ ext.header.ok /\ ext.header.isEncrypted
    /\ ext.password.isNull /\ ext.error = "PasswordRequired"

\* what hideInExistingImageAsync has to embed: header and processed payload
ProcessedLength(r) ==
    IF r.password.isNull THEN Len(r.file.data) + DeflateOverhead
    ELSE IV_SIZE + IV_SIZE * (((Len(r.file.data) + DeflateOverhead) \div IV_SIZE) + 1)

TotalLength(r) ==
    15 + Len(Utf8Encode(r.file.name)) + SHA256_SIZE + ProcessedLength(r)

CapacityOf(img, bitDepth) == (img.width * img.height * 3 * bitDepth) \div 8

HideLsbDecided ==
    /\ pc \in {"hidden", "failed"} /\ req.mode = "lsb"
    /\ Len(Utf8Encode(req.file.name)) <= MaxFileNameBytes

\* C9: hideInExistingImageAsync succeeds exactly when header and processed
\* payload are at most floor(width*height*3*bitDepth/8) bytes, and otherwise
\* fails with the capacity error that reports both numbers
C9_CapacityBoundary ==
    HideLsbDecided
        => LET total == TotalLength(req)
               capacity == CapacityOf(carrier, req.bitDepth)
           IN  /\ total <= capacity
                    => hideOut.status = "ok" /\ hideOut.required = total
               /\ total > capacity
                    => /\ hideOut.status = "error"
                       /\ hideOut.error = "CapacityExceeded"
                       /\ hideOut.required = total
                       /\ hideOut.available = capacity

C9_Witness ==
    /\ HideLsbDecided /\ hideOut.status = "ok"
    /\ hideOut.required = CapacityOf(carrier, req.bitDepth)

C9_WitnessOneOver ==
    /\ HideLsbDecided /\ hideOut.status = "error"
    /\ hideOut.required = CapacityOf(carrier, req.bitDepth) + 1

NothingWritten ==
    /\ hideOut.pixelWrites = 0
    /\ hideOut.image = NoImage
    /\ image = NoImage

\* C10: a hide that fails has written no pixel and produced no image, and on
\* an 8x8 carrier at bit depth 1 every hide fails with the capacity error
C10_AtomicAndSmallCarrier ==
    /\ pc = "failed" => NothingWritten
    /\ (pc \in {"hidden", "failed"} /\ req.mode = "lsb" /\ req.bitDepth = 1
        /\ carrier.width = 8 /\ carrier.height = 8)
          => pc = "failed" /\ hideOut.error = "CapacityExceeded"

\* C10 as amended: a hide that fails has written no pixel and produced no
\* image, and on an 8x8 carrier at bit depth 1 every hide fails: with the
\* capacity error when the file name has at most 255 bytes, and with the
\* file-name error before that when it is longer
C10_AtomicFailure ==
    /\ pc = "failed" => NothingWritten
    /\ (pc \in {"hidden", "failed"} /\ req.mode = "lsb" /\ req.bitDepth = 1
        /\ carrier.width = 8 /\ carrier.height = 8)
          => /\ pc = "failed" /\ NothingWritten
             /\ hideOut.error =
                  IF Len(Utf8Encode(req.file.name)) <= MaxFileNameBytes
                  THEN "CapacityExceeded" ELSE "FilenameTooLong"

C10_Witness ==
    /\ pc = "failed" /\ req.mode = "lsb" /\ req.bitDepth = 1
    /\ carrier = Carrier(8, 8, "pattern")
    /\ hideOut.error = "CapacityExceeded" /\ hideOut.required > 24

AlphaElements(buf) == {x \in 1..Len(buf) : (x - 1) % 4 = 3}

\* C11: after _writeBytesDirectly or _writeDataWithBitDepth at any bit depth
\* every alpha element of the buffer has the value it had before, and what
\* _readBytesDirectly and _readDataWithBitDepth return does not depend on
\* the alpha elements
C11_AlphaUntouched ==
    codec.phase \in {"alphaWritten", "alphaRead"}
        => /\ Len(codec.buf) = Len(codec.before)
           /\ \A x \in AlphaElements(codec.buf) : codec.buf[x] = codec.before[x]
           /\ codec.phase = "alphaRead"
                => codec.out =
                     IF codec.bitDepth = 0
                     THEN _readBytesDirectly(OtherAlpha(codec.buf), codec.s, codec.n)
                     ELSE _readDataWithBitDepth(OtherAlpha(codec.buf), codec.s,
                                                codec.n, codec.bitDepth)

C11_Witness ==
    /\ codec.phase = "alphaRead" /\ codec.bitDepth = 3 /\ codec.n = MaxCodecBytes
    /\ codec.buf # codec.before
    /\ \E x \in AlphaElements(codec.buf) : codec.buf[x] \notin {0, 255}
    /\ codec.out # [i \in 1..codec.n |-> 0]

\* C12: a header that a hide produced has 47 + len(utf8(fileName)) bytes:
\* 'SC', encodingType, isCompressed, bitDepth, the size of the processed
\* payload in 8 bytes little endian, the length of the file name, the name,
\* isEncrypted and the 32 bytes of the hash, with nothing between them, and
\* the processed payload of that size is embedded right after it
C12_HeaderLayout ==
    pc = "hidden"
        => LET h == hideOut.header
               name == Utf8Encode(req.file.name)
               n == Len(name)
               size == Len(hideOut.processed)
           IN  /\ Len(h) = 47 + n
               /\ SubSeq(h, 1, 2) = <<83, 67>>
               /\ h[3] = (IF req.mode = "lsb" THEN 1 ELSE 0)
               /\ h[4] \in {0, 1}
               /\ h[5] = req.bitDepth
               /\ h[6] = size % 256
               /\ h[7] = size \div 256
               /\ \A i \in 8..13 : h[i] = 0
               /\ h[14] = n
               /\ SubSeq(h, 15, 14 + n) = name
               /\ h[15 + n] \in {0, 1}
               /\ SubSeq(h, 16 + n, 47 + n) = _computeSHA256(req.file.data)
               /\ req.mode = "generate"
                    => _readBytesDirectly(image.data, Len(h), size) = hideOut.processed
               /\ (req.mode = "lsb" /\ req.bitDepth \in {1, 2, 4, 8})
                    => _readDataWithBitDepth(image.data, Len(h), size, req.bitDepth)
                          = hideOut.processed

C12_Witness ==
    /\ pc = "hidden" /\ req.mode = "generate"
    /\ req.file.name = NameE /\ req.password = PasswordP
    /\ Len(hideOut.processed) > 255
    /\ Len(hideOut.header) = 50

\* C13: _readHeader on a header that _createHeader built and that was
\* embedded directly or at bit depth 1 returns the encodingType, isCompressed,
\* bitDepth, fileSize, fileName, isEncrypted and sha256Hash the header was
\* built from, and totalHeaderSize is the length of the header
C13_HeaderRoundTrip ==
    codec.phase = "headerRead"
        => /\ codec.out.ok
           /\ codec.out.probe = (IF codec.args.mode = "lsb" THEN "lsb" ELSE "direct")
           /\ codec.out.encodingType = codec.args.encodingType
           /\ codec.out.isCompressed = codec.args.isCompressed
           /\ codec.out.bitDepth = codec.args.bitDepth
           /\ codec.out.fileSize = codec.args.fileSize
           /\ codec.out.fileName = codec.args.fileName
           /\ codec.out.isEncrypted = codec.args.isEncrypted
           /\ codec.out.sha256Hash = codec.args.sha256Hash
           /\ codec.out.totalHeaderSize = Len(codec.header)

C13_Witness ==
    /\ codec.phase = "headerRead" /\ codec.args.mode = "lsb"
    /\ codec.args.fileName = NameE /\ codec.args.isEncrypted
    /\ codec.out.ok /\ codec.out.fileSize > 65536
    /\ codec.out.totalHeaderSize = 50

HideDecided == pc \in {"hidden", "failed"}

C14_WitnessFullName ==
    /\ pc = "hidden" /\ req.mode = "lsb"
    /\ Len(Utf8Encode(req.file.name)) = 255
    /\ hideOut.header[14] = 255

\* the sha256Hash field of a header: its last 32 bytes
HashField(header) == SubSeq(header, Len(header) - 31, Len(header))

\* C15: in every hide of either pipeline the hash written to the header is
\* the digest of the payload bytes as read, before compression and
\* encryption, whatever the mode, the bit depth and the password
C15_HashOfOriginal ==
    pc = "hidden" => HashField(hideOut.header) = _computeSHA256(req.file.data)

C15_Witness ==
    /\ pc = "hidden" /\ req.mode = "lsb" /\ req.bitDepth = 4
    /\ req.password = PasswordQ /\ Len(req.file.data) = MaxPayloadLen
    /\ hideOut.processed # req.file.data
    /\ HashField(hideOut.header) # _computeSHA256(hideOut.processed)
    /\ HashField(hideOut.header) = _computeSHA256(req.file.data)

\* the isEncrypted byte of a header, after the file name
EncryptedField(header) == header[15 + header[14]]

\* C16: a header of createCarrierImageAsync has encodingType 0 and
\* isCompressed 0 and its payload was not deflated; a header of
\* hideInExistingImageAsync has encodingType 1 and isCompressed 1 and its
\* payload was deflated before any encryption; in both isEncrypted is 1
\* exactly when the payload was encrypted, and the processed payload is
\* Encrypt(Compress(original)) with the steps that did not run left out
C16_TransformPolicy ==
    pc = "hidden"
        => LET h == hideOut.header
               base == IF req.mode = "lsb" THEN Deflate(req.file.data)
                       ELSE req.file.data
           IN  /\ req.mode = "generate" => h[3] = 0 /\ h[4] = 0
               /\ req.mode = "lsb" => h[3] = 1 /\ h[4] = 1
               /\ EncryptedField(h) \in {0, 1}
               /\ EncryptedField(h) = 0 => hideOut.processed = base
               /\ EncryptedField(h) = 1
                    => /\ hideOut.processed # base
                       /\ SubSeq(hideOut.processed, 1, IV_SIZE) = req.iv
                       /\ DecryptOk(hideOut.processed, req.password)
                       /\ _decryptData(hideOut.processed, req.password) = base

C16_Witness ==
    /\ pc = "hidden" /\ req.mode = "lsb" /\ req.password = PasswordP
    /\ Len(req.file.data) = MaxPayloadLen
    /\ EncryptedField(hideOut.header) = 1
    /\ Inflate(_decryptData(hideOut.processed, req.password)) = req.file.data

\* the empty string as password: the existing-image pipeline encrypts with
\* it and sets the flag, the generate pipeline does neither
C16_WitnessEmptyPassword ==
    /\ pc = "hidden" /\ req.password = PasswordEmpty
    /\ EncryptedField(hideOut.header) = (IF req.mode = "lsb" THEN 1 ELSE 0)
    /\ req.mode = "lsb"

\* C17: for every total length T >= 1 the generated image is a square of side
\* s = ceil(sqrt(ceil(T/3))), the smallest square that holds T bytes in three
\* channels per pixel (3*s*s >= T and (s-1)*(s-1) < ceil(T/3)), and
\* _writeBytesDirectly embeds all T bytes in it
C17_DirectSizing ==
    codec.phase \in {"sized", "sizeWritten"}
        => LET total == Len(codec.bytes)
               side == codec.imageSize
           IN  /\ side >= 1
               /\ codec.pixelCount * 3 >= total /\ (codec.pixelCount - 1) * 3 < total
               /\ side * side >= codec.pixelCount
               /\ (side - 1) * (side - 1) < codec.pixelCount
               /\ 3 * side * side >= total
               /\ codec.phase = "sizeWritten"
                    => /\ Len(codec.buf) = 4 * side * side
                       /\ _readBytesDirectly(codec.buf, 0, total) = codec.bytes

C17_Witness ==
    /\ codec.phase = "sizeWritten" /\ Len(codec.bytes) = 109
    /\ codec.imageSize = 7 /\ codec.buf[4 * 36 + 1] = codec.bytes[109]

HelloHidden ==
    /\ pc # "idle" /\ req.mode = "generate" /\ req.password.isNull
    /\ req.file = [name |-> NameATxt, data |-> Hello]

\* C18: hiding the 5 bytes HELLO of the file a.txt without password by
\* createCarrierImageAsync gives a header of 53 bytes, 58 embedded bytes and
\* an image of 20x20 pixels
C18_HelloTwentySquare ==
    HelloHidden
        => /\ Len(hideOut.header) = 53
           /\ Len(hideOut.header) + Len(hideOut.processed) = 58
           /\ image.width = 20 /\ image.height = 20

\* C18 as amended: the header has 52 bytes (47 and the 5 of the name), 57
\* bytes are embedded, they need 19 pixels, and the image is the square of
\* 5x5 pixels
C18_HelloFiveSquare ==
    HelloHidden
        => /\ hideOut.status = "ok"
           /\ Len(hideOut.header) = 52
           /\ Len(hideOut.header) + Len(hideOut.processed) = 57
           /\ CeilDiv(57, BYTES_PER_PIXEL_GENERATED) = 19
           /\ image.width = 5 /\ image.height = 5
           /\ Len(image.data) = 4 * 5 * 5
           /\ _readBytesDirectly(image.data, 52, 5) = Hello

C18_Witness ==
    /\ HelloHidden /\ pc = "extracted" /\ Recovered
    /\ image.width = 5 /\ hideOut.required = 57

\* the depths 1..8 whose capacity on a carrier of that size holds the bytes
FittingDepths(requiredBytes, size) ==
    {d \in 1..8 : requiredBytes <= (size.width * size.height * 3 * d) \div 8}

\* C19: a finished capacity scan for requiredBytes and a carrier of w x h
\* pixels has set minBitDepth and bitDepth to the smallest depth of 1..8 with
\* requiredBytes <= floor(w*h*3*d/8) and cleared the error; when no depth
\* fits it has set the too-large error with the capacity at depth 8 and left
\* both depths alone; with the error set handleProcess starts no hide
C19_MinimalDepthScan ==
    /\ (ui.screen = "lsb" /\ ui.last = "scan" /\ ui.scan.ok)
         => LET fits == FittingDepths(ui.scan.requiredBytes, ui.scan.size)
            IN  IF fits # {}
                THEN /\ ui.minBitDepth \in fits /\ ui.bitDepth = ui.minBitDepth
                     /\ \A d \in fits : ui.minBitDepth <= d
                     /\ ui.payloadTooLargeError.kind = "none"
                ELSE /\ ui.payloadTooLargeError.kind = "tooLarge"
                     /\ ui.payloadTooLargeError.maxCapacity
                           = ui.scan.size.width * ui.scan.size.height * 3
                     /\ ui.bitDepth = ui.scan.bitDepthBefore
                     /\ ui.minBitDepth = ui.scan.minBitDepthBefore
    /\ (ui.screen = "lsb" /\ ui.last = "process")
         => IF ui.payloadTooLargeError.kind # "none"
            THEN /\ pc = "idle" /\ req.mode = "none" /\ hideOut.status = "none"
                 /\ ~ui.result.success
                 /\ ui.result.message = ui.payloadTooLargeError.kind
            ELSE pc \in {"hidden", "failed"} /\ req.bitDepth = ui.bitDepth

C19_Witness ==
    /\ ui.screen = "lsb" /\ ui.last = "scan" /\ ui.scan.ok
    /\ ui.minBitDepth = 4 /\ ui.bitDepth = 4
    /\ ui.scan.requiredBytes = (ui.scan.size.width * ui.scan.size.height * 3 * 4) \div 8

C19_WitnessRefused ==
    /\ ui.screen = "lsb" /\ ui.last = "process"
    /\ ui.payloadTooLargeError.kind = "tooLarge"
    /\ ui.payloadTooLargeError.maxCapacity = 54
    /\ pc = "idle"

\* C20: after createCarrierImageAsync of soc-frontend every element of the
\* image at an index i with i % 4 = 3 still holds 255, the alpha value of the
\* white fill
C20_FrontendAlphaUntouched ==
    (pc = "hidden" /\ req.mode = "frontend")
        => \A x \in AlphaElements(image.data) : image.data[x] = 255

\* C21: _readHeader reads the first 5 bytes as LSB at bit depth 1 and, when
\* they do not start with the signature, reads the same 5 bytes directly; the
\* read that matches gives encodingType, isCompressed and bitDepth, and every
\* later read of the header and of the payload uses the reader and the bit
\* depth these declare; when neither read matches, extraction ends with the
\* invalid-signature error and no header
C21_EncodingDetection ==
    Extracted =>
        LET lsb == _readDataWithBitDepth(image.data, 0, 5, 1)
            direct == _readBytesDirectly(image.data, 0, 5)
            lsbMatch == SubSeq(lsb, 1, 2) = SIGNATURE
            directMatch == SubSeq(direct, 1, 2) = SIGNATURE
            sig == IF lsbMatch THEN lsb ELSE direct
            declared(offset, len) ==
                IF sig[3] = ENCODING_TYPE_LSB
                THEN _readDataWithBitDepth(image.data, offset, len, sig[5])
                ELSE _readBytesDirectly(image.data, offset, len)
            nameLen == declared(13, 1)[1]
            h == ext.header
        IN  IF ~lsbMatch /\ ~directMatch
            THEN /\ ext.status = "error" /\ ext.error = "InvalidSignature"
                 /\ h = NoHeader("none")
                 /\ ext.fileName = <<>> /\ ext.data = <<>>
            ELSE /\ h.ok
                 /\ h.probe = (IF lsbMatch THEN "lsb" ELSE "direct")
                 /\ h.encodingType = sig[3]
                 /\ h.isCompressed = (sig[4] = 1)
                 /\ h.bitDepth = sig[5]
                 /\ h.fileSize = SizeValue(declared(5, 8))
                 /\ h.fileName = Utf8Decode(declared(14, nameLen))
                 /\ h.isEncrypted = (declared(14 + nameLen, 1)[1] = 1)
                 /\ h.sha256Hash = declared(15 + nameLen, SHA256_SIZE)
                 /\ h.totalHeaderSize = 15 + nameLen + SHA256_SIZE
                 /\ ext.fileDataFromImage = declared(h.totalHeaderSize, h.fileSize)
                 /\ ext.error # "InvalidSignature"

\* the direct read is the fallback: a generated image, whose depth-1 read does
\* not match
C21_Witness ==
    /\ Extracted /\ req.mode = "generate" /\ req.password = PasswordP
    /\ ext.header.ok /\ ext.header.probe = "direct"
    /\ ext.header.encodingType = ENCODING_TYPE_GENERATED
    /\ Len(ext.fileDataFromImage) = IV_SIZE + IV_SIZE
    /\ ext.status = "ok"

\* the direct read matches and the header declares LSB at depth 8
C21_WitnessDeclaredDepth ==
    /\ Extracted /\ req.mode = "lsb" /\ req.bitDepth = 8
    /\ ext.header.probe = "direct" /\ ext.header.encodingType = ENCODING_TYPE_LSB
    /\ ext.header.bitDepth = 8 /\ ext.fileDataFromImage = hideOut.processed

\* the depth-1 read matches
C21_WitnessLsbProbe ==
    /\ Extracted /\ req.mode = "lsb" /\ req.bitDepth = 1
    /\ ext.header.probe = "lsb" /\ ext.fileDataFromImage = hideOut.processed

\* neither read matches
C21_WitnessNoSignature ==
    /\ Extracted /\ req.mode = "lsb" /\ req.bitDepth = 3
    /\ ~ext.header.ok /\ ext.error = "InvalidSignature"

\* C22: at every bit depth d of 1..8, after _writeDataWithBitDepth each
\* element keeps its upper 8 - d bits, only the first ceil(8 * len / d)
\* non-alpha elements can differ from what they held, and every element after
\* them, and every alpha element, is unchanged
C22_BitPlaneWriteFrame ==
    codec.phase \in {"written", "read"} =>
        LET d == codec.bitDepth
            touched == CeilDiv(8 * Len(codec.bytes), d)
        IN  \A x \in 1..Len(codec.buf) :
                LET i == x - 1
                    n == (i \div 4) * 3 + (i % 4)
                IN  /\ codec.buf[x] \div Pow2(d) = codec.before[x] \div Pow2(d)
                    /\ (i % 4 = 3 \/ n >= touched) => codec.buf[x] = codec.before[x]

\* three bytes at depth 3 change the low bits of the first 8 elements that
\* are not alpha
C22_Witness ==
    /\ codec.phase = "written" /\ codec.bitDepth = 3
    /\ codec.bytes = <<83, 255, 0>> /\ codec.before[1] = 170
    /\ codec.buf[1] = 170 /\ codec.buf[2] = 172 /\ codec.buf[3] = 175
    /\ codec.buf[10] = 168 /\ codec.buf[11] = 170

\* C23: for every password value (none, the empty string, a non-empty
\* string) an image made by hideInExistingImageAsync at bit depth 1 or by
\* createCarrierImageAsync is extracted by extractFileAsync given the same
\* value, and the two hide calls put the same isEncrypted byte in the header
\* for the same value
C23_PasswordAgreement ==
    /\ (ExtractedUntouched /\ ext.password = req.password) => Recovered
    /\ pc = "hidden" =>
          LET other == IF req.mode = "lsb"
                       THEN createCarrierImageAsync(req.file, req.password, req.iv)
                       ELSE hideInExistingImageAsync(req.file, Carrier(15, 15, "pattern"),
                                                     req.password, 1, req.iv)
          IN  EncryptedField(other.header) = EncryptedField(hideOut.header)

\* the last run of checkCapacity that finished was for the payload and the
\* carrier now selected, no run is in flight, and it set no error
ScanAcceptedSelection ==
    /\ ui.screen = "lsb" /\ ui.runs = {} /\ ui.scan.done /\ ui.scan.ok
    /\ ui.payloadFile.set /\ ui.carrierImgSize.set
    /\ ui.scan.size = ui.carrierImgSize.size
    /\ ui.scan.requiredBytes = CheckCapacityRequired(ui.payloadFile.file).requiredBytes
    /\ ui.payloadTooLargeError.kind = "none"

\* C24: when the scan of checkCapacity has accepted a bit depth for the
\* payload and the carrier (no error, minBitDepth <= bitDepth), the hide that
\* handleProcess starts with them passes its own capacity check, with or
\* without a password: the byte count of the scan is not below header +
\* processed payload of the hide
C24_ScanSoundForHide ==
    (ScanAcceptedSelection /\ ui.last = "process" /\ ui.minBitDepth <= req.bitDepth)
        => /\ hideOut.status = "ok"
           /\ ui.scan.requiredBytes >= Len(hideOut.header) + Len(hideOut.processed)

\* C25: extractFileAsync and extractMetadataAsync come to an end (a result or
\* an error) on every pixel buffer, whatever encodingType and bitDepth its
\* header declares, and every iteration of the inner loop of
\* _readDataWithBitDepth moves bitIndex forward
C25_ExtractionTerminates ==
    /\ <>(codec.phase = "returned")
    /\ [][(codec.phase = "inner" /\ codec'.phase = "inner")
             => codec'.bitIndex > codec.bitIndex]_vars

\* C26: at bit depth 8 the LSB codec is the direct codec: on a buffer that
\* holds the bytes, _writeDataWithBitDepth(buf, B, 8) leaves what
\* _writeBytesDirectly(buf, B) leaves, and _readDataWithBitDepth(buf, s, n, 8)
\* returns what _readBytesDirectly(buf, s, n) returns for every s and n
\* within the buffer
C26_DepthEightIsDirect ==
    /\ (codec.phase = "alphaWritten" /\ codec.bitDepth = 8)
          => codec.buf = _writeBytesDirectly(codec.before, codec.bytes)
    /\ (codec.phase = "alphaWritten" /\ codec.bitDepth = 0)
          => codec.buf = _writeDataWithBitDepth(codec.before, codec.bytes, 8)
    /\ (codec.phase = "alphaRead" /\ codec.bitDepth = 8)
          => codec.out = _readBytesDirectly(codec.buf, codec.s, codec.n)
    /\ (codec.phase = "alphaRead" /\ codec.bitDepth = 0)
          => codec.out = _readDataWithBitDepth(codec.buf, codec.s, codec.n, 8)
    /\ codec.phase = "alphaWritten"
          => \A s \in 0..((Len(codec.buf) \div 4) * 3) :
             \A n \in 0..((Len(codec.buf) \div 4) * 3 - s) :
                _readDataWithBitDepth(codec.buf, s, n, 8)
                    = _readBytesDirectly(codec.buf, s, n)

\* three bytes written at bit depth 8 in a buffer of other values
C26_Witness ==
    /\ codec.phase = "alphaWritten" /\ codec.bitDepth = 8
    /\ codec.bytes = <<83, 255, 0>> /\ Len(codec.buf) = 4 * MaxCodecPixels
    /\ SubSeq(codec.buf, 1, 5) = <<83, 255, 0, codec.before[4], 170>>

\* two of the bytes read back at bit depth 8
C26_WitnessRead ==
    /\ codec.phase = "alphaRead" /\ codec.bitDepth = 8
    /\ codec.s = 1 /\ codec.n = 2 /\ codec.out = <<255, 83>>

\* C27: in soc-frontend the 8-byte size field comes back from readHeader as
\* the fileSize createHeader was given
C27_FrontendSizeRoundTrip ==
    (Extracted /\ req.mode = "frontend")
        => ext.header.ok /\ ext.header.fileSize = Len(hideOut.processed)

\* C28: in soc-frontend extractFileAsync compares the stored hash with the
\* digest of the bytes it was computed over at hide time, the original
\* payload, so an image created with a password passes the hash comparison
\* and comes back decrypted when the same password is given
C28_FrontendHashAfterDecrypt ==
    (Extracted /\ req.mode = "frontend" /\ ~req.password.isNull
               /\ ext.password = req.password)
        => /\ ext.hashChecked => ext.hashEqual
           /\ Recovered

\* C29: once every run of checkCapacity in flight has finished, minBitDepth,
\* bitDepth and payloadTooLargeError are those of the payload and the carrier
\* now selected: a run started for an earlier selection has not overwritten
\* them, and after a change of mode has reset the inputs no error is set
C29_CapacityChecksDoNotRace ==
    (pc = "idle" /\ ui.screen # "off" /\ ui.runs = {})
        => IF ui.payloadFile.set /\ ui.carrierImgSize.set
           THEN LET required == CheckCapacityRequired(ui.payloadFile.file)
                    depth == ScanDepth(required.requiredBytes, ui.carrierImgSize.size, 1)
                IN  IF ~required.ok
                    THEN ui.payloadTooLargeError.kind = "couldNotCalculate"
                    ELSE IF depth = 0
                    THEN /\ ui.payloadTooLargeError.kind = "tooLarge"
                         /\ ui.payloadTooLargeError.maxCapacity
                               = ui.carrierImgSize.size.width
                                   * ui.carrierImgSize.size.height * 3
                    ELSE /\ ui.payloadTooLargeError.kind = "none"
                         /\ ui.minBitDepth = depth
                         /\ ui.bitDepth \in depth..8
           ELSE /\ ui.payloadTooLargeError.kind = "none"
                /\ (ui.last \in {"mode", "scan"} /\ ~ui.payloadFile.set
                        /\ ~ui.carrierImgSize.set)
                      => ui.minBitDepth = 1 /\ ui.bitDepth = 1

\* the fields extractMetadataAsync gives for the image of a hide
MetadataOf(out) ==
    LET h == extractMetadataAsync(out.image.data)
    IN  <<h.ok, h.fileName, h.fileSize, h.isEncrypted, h.sha256Hash>>

====
